---- MODULE Spec2Model ----
(***************************************************************************)
(* A model of the query-translation core of the e-learning application:    *)
(* src/lib/filters.js (Filter Builder), src/lib/atlasSearch.js (Search     *)
(* Pipeline Builder) and the envelope shaping of GET /api/pdfs.             *)
(*                                                                         *)
(* JavaScript values are tagged records: [t |-> "undefined"],              *)
(* [t |-> "null"], [t |-> "string", s |-> <<chars>>], [t |-> "number",     *)
(* n |-> Int], [t |-> "infinity", sign |-> 1 or -1], [t |-> "nan"],        *)
(* [t |-> "boolean", b |-> BOOLEAN], [t |-> "array", a |-> <<values>>],    *)
(* [t |-> "object", o |-> function from keys to values],                   *)
(* [t |-> "date", h |-> Int], [t |-> "regexp", source, flags] and          *)
(* [t |-> "function", name].  A string is a sequence of characters, each   *)
(* character a one-element TLA+ string or a named control character such   *)
(* as "<SOH>".                                                             *)
(***************************************************************************)
EXTENDS Integers, Sequences, FiniteSets, TLC

VARIABLES arg,      \* the builder's argument, or the request's query parameters
          out,      \* what the call produced ([op |-> "none"] before the call)
          store,    \* the Pdf collection: [up |-> reachable, docs |-> documents]
          node      \* the Node process dbConnect runs in: its module-level
                    \* cache, the connection promises, the microtask queue
                    \* and the callers of dbConnect

vars == <<arg, out, store, node>>

\* no connection cached or attempted, nothing queued, nobody calling
NodeIdle ==
  [cached |-> [conn |-> 0, promise |-> 0], promises |-> <<>>, jobs |-> <<>>,
   callers |-> <<>>]

----------------------------------------------------------------------------
(* JavaScript values *)

Undef == [t |-> "undefined"]
Null == [t |-> "null"]
NaN == [t |-> "nan"]
Str(s) == [t |-> "string", s |-> s]
Num(n) == [t |-> "number", n |-> n]
Inf(sign) == [t |-> "infinity", sign |-> sign]
Bool(b) == [t |-> "boolean", b |-> b]
Arr(a) == [t |-> "array", a |-> a]
Obj(o) == [t |-> "object", o |-> o]
Fn(name) == [t |-> "function", name |-> name]
RegExp(source, flags) == [t |-> "regexp", source |-> source, flags |-> flags]

EmptyObj == [k \in {} |-> Undef]
Put(o, k, v) == (k :> v) @@ o

\* ToBoolean
Truthy(v) ==
  CASE v.t = "undefined" -> FALSE
    [] v.t = "null" -> FALSE
    [] v.t = "nan" -> FALSE
    [] v.t = "string" -> v.s # <<>>
    [] v.t = "number" -> v.n # 0
    [] v.t = "boolean" -> v.b
    [] OTHER -> TRUE

----------------------------------------------------------------------------
(* Characters and strings *)

Digits == <<"0", "1", "2", "3", "4", "5", "6", "7", "8", "9">>
DigitSet == {Digits[i] : i \in 1..10}
DigitVal(c) == (CHOOSE i \in 1..10 : Digits[i] = c) - 1

\* [\x00-\x1F\x7F]: the characters sanitizeString removes
ControlChars == {"<NUL>", "<SOH>", "<TAB>", "<LF>", "<CR>", "<ESC>", "<DEL>"}
\* what String.prototype.trim strips
WhiteSpace == {" ", "<TAB>", "<LF>", "<CR>", "<NBSP>"}

Upper == <<"A", "B", "C", "D", "E", "F", "G", "H", "I", "J", "K", "L", "M",
           "N", "O", "P", "Q", "R", "S", "T", "U", "V", "W", "X", "Y", "Z">>
Lower == <<"a", "b", "c", "d", "e", "f", "g", "h", "i", "j", "k", "l", "m",
           "n", "o", "p", "q", "r", "s", "t", "u", "v", "w", "x", "y", "z">>
ToLowerChar(c) ==
  IF \E i \in 1..26 : Upper[i] = c
    THEN Lower[CHOOSE i \in 1..26 : Upper[i] = c]
    ELSE c
ToLower(s) == [i \in 1..Len(s) |-> ToLowerChar(s[i])]

Min(S) == CHOOSE x \in S : \A y \in S : x <= y
Max(S) == CHOOSE x \in S : \A y \in S : x >= y

Repeat(c, n) == [i \in 1..n |-> c]

\* String.prototype.trim
Trim(s) ==
  LET keep == {i \in 1..Len(s) : s[i] \notin WhiteSpace}
  IN IF keep = {} THEN <<>> ELSE SubSeq(s, Min(keep), Max(keep))

NotControl(c) == c \notin ControlChars

\* String.prototype.split(',')
RECURSIVE Split(_)
Split(s) ==
  LET commas == {i \in 1..Len(s) : s[i] = ","}
  IN IF commas = {} THEN <<s>>
     ELSE LET i == Min(commas)
          IN <<SubSeq(s, 1, i - 1)>> \o Split(SubSeq(s, i + 1, Len(s)))

\* Array.prototype.join(',') over strings
RECURSIVE Join(_)
Join(a) ==
  IF a = <<>> THEN <<>>
  ELSE IF Len(a) = 1 THEN a[1]
  ELSE a[1] \o <<",">> \o Join(Tail(a))

\* the decimal digits of a natural number
RECURSIVE NatToStr(_)
NatToStr(n) ==
  IF n < 10 THEN <<Digits[n + 1]>>
  ELSE NatToStr(n \div 10) \o <<Digits[(n % 10) + 1]>>

\* String(val): ToString of the values the model draws
RECURSIVE ToStr(_)
ToStr(v) ==
  CASE v.t = "string" -> v.s
    [] v.t = "undefined" -> <<"u", "n", "d", "e", "f", "i", "n", "e", "d">>
    [] v.t = "null" -> <<"n", "u", "l", "l">>
    [] v.t = "nan" -> <<"N", "a", "N">>
    [] v.t = "boolean" -> IF v.b THEN <<"t", "r", "u", "e">>
                                 ELSE <<"f", "a", "l", "s", "e">>
    [] v.t = "number" -> IF v.n < 0 THEN <<"-">> \o NatToStr(-v.n)
                                    ELSE NatToStr(v.n)
    [] v.t = "infinity" ->
         (IF v.sign < 0 THEN <<"-">> ELSE <<>>)
           \o <<"I", "n", "f", "i", "n", "i", "t", "y">>
    [] v.t = "array" ->
         Join([i \in 1..Len(v.a) |->
                 IF v.a[i].t \in {"undefined", "null"} THEN <<>>
                 ELSE ToStr(v.a[i])])
    [] OTHER -> <<"[", "o", "b", "j", "e", "c", "t", " ",
                  "O", "b", "j", "e", "c", "t", "]">>

----------------------------------------------------------------------------
(* Numbers.  A JavaScript number is a double: the model keeps an exact      *)
(* integer while the digits fit, [t |-> "big"] for a finite integer beyond  *)
(* that, and infinity for a digit string beyond the double range.           *)

\* digit strings up to this length are kept as exact integers
MaxExactDigits == 9
\* a decimal integer of at least this many significant digits exceeds
\* Number.MAX_VALUE (about 1.8 * 10^308) and converts to Infinity
InfinityDigits == 310

Big(sign, digits) == [t |-> "big", sign |-> sign, digits |-> digits]

RECURSIVE DigitsToNat(_)
DigitsToNat(ds) ==
  IF ds = <<>> THEN 0
  ELSE 10 * DigitsToNat(SubSeq(ds, 1, Len(ds) - 1)) + DigitVal(ds[Len(ds)])

\* the Number for sign and a non-empty run of decimal digits
DigitsToNumber(sign, ds) ==
  LET nz == {i \in 1..Len(ds) : ds[i] # "0"}
      sig == IF nz = {} THEN <<"0">> ELSE SubSeq(ds, Min(nz), Len(ds))
  IN IF Len(sig) <= MaxExactDigits THEN Num(sign * DigitsToNat(sig))
     ELSE IF Len(sig) >= InfinityDigits THEN Inf(sign)
     ELSE Big(sign, Len(sig))

\* parseInt(str, 10): leading white space, an optional sign, the longest run
\* of decimal digits; NaN when there is none
ParseInt10(str) ==
  LET nonws == {i \in 1..Len(str) : str[i] \notin WhiteSpace}
      s == IF nonws = {} THEN <<>> ELSE SubSeq(str, Min(nonws), Len(str))
      signed == s # <<>> /\ s[1] \in {"+", "-"}
      sign == IF signed /\ s[1] = "-" THEN -1 ELSE 1
      body == IF signed THEN Tail(s) ELSE s
      stop == {i \in 1..Len(body) : body[i] \notin DigitSet}
      ds == IF stop = {} THEN body ELSE SubSeq(body, 1, Min(stop) - 1)
  IN IF ds = <<>> THEN NaN ELSE DigitsToNumber(sign, ds)

\* Number(str) for the decimal integer strings the model draws; anything
\* else the model draws is not numeric
ToNumber(str) ==
  LET s == Trim(str)
      signed == s # <<>> /\ s[1] \in {"+", "-"}
      sign == IF signed /\ s[1] = "-" THEN -1 ELSE 1
      body == IF signed THEN Tail(s) ELSE s
  IN IF s = <<>> THEN Num(0)
     ELSE IF body # <<>> /\ \A i \in 1..Len(body) : body[i] \in DigitSet
       THEN DigitsToNumber(sign, body)
     ELSE NaN

\* x <= 0 and x > m on numbers (a comparison with NaN is false)
LeqZero(x) ==
  CASE x.t = "number" -> x.n <= 0
    [] x.t \in {"infinity", "big"} -> x.sign < 0
    [] OTHER -> FALSE
GreaterThan(x, m) ==
  CASE x.t = "number" -> x.n > m
    [] x.t \in {"infinity", "big"} -> x.sign > 0
    [] OTHER -> FALSE

\* (page - 1) * limit for a resolved page (> 0) and a limit in 1..MAX_LIMIT
SkipOf(page, limit) ==
  CASE page.t = "number" -> Num((page.n - 1) * limit.n)
    [] page.t = "infinity" -> Inf(1)
    [] OTHER -> Big(1, page.digits)

----------------------------------------------------------------------------
(* src/lib/filters.js *)

DEFAULT_PAGE == 1
DEFAULT_LIMIT == 12
MAX_LIMIT == 200

\* a Mongo sort object, as its keys in order with their directions
SortScore == <<<<"score", -1>>, <<"downloads", -1>>, <<"createdAt", -1>>>>
SortDownloads == <<<<"downloads", -1>>, <<"createdAt", -1>>>>
SortLatest == <<<<"createdAt", -1>>>>
SortOldest == <<<<"createdAt", 1>>>>
SortPriceAsc == <<<<"price", 1>>>>
SortPriceDesc == <<<<"price", -1>>>>

S_score == <<"s", "c", "o", "r", "e">>
S_downloads == <<"d", "o", "w", "n", "l", "o", "a", "d", "s">>
S_latest == <<"l", "a", "t", "e", "s", "t">>
S_oldest == <<"o", "l", "d", "e", "s", "t">>
S_price_asc == <<"p", "r", "i", "c", "e", "_", "a", "s", "c">>
S_price_desc == <<"p", "r", "i", "c", "e", "_", "d", "e", "s", "c">>
S_constructor == <<"c", "o", "n", "s", "t", "r", "u", "c", "t", "o", "r">>
S_toString == <<"t", "o", "S", "t", "r", "i", "n", "g">>
S_valueOf == <<"v", "a", "l", "u", "e", "O", "f">>
S_proto == <<"_", "_", "p", "r", "o", "t", "o", "_", "_">>
S_bogus == <<"b", "o", "g", "u", "s">>

\* property names every object literal inherits from Object.prototype
ObjectPrototypeKeys == {S_constructor, S_toString, S_valueOf, S_proto}

\* SORT_MAP[key]: an own entry of the table, else what the object literal
\* inherits from Object.prototype, else undefined
SORT_MAP(key) ==
  CASE key = S_score -> Obj(SortScore)
    [] key = S_downloads -> Obj(SortDownloads)
    [] key = S_latest -> Obj(SortLatest)
    [] key = S_oldest -> Obj(SortOldest)
    [] key = S_price_asc -> Obj(SortPriceAsc)
    [] key = S_price_desc -> Obj(SortPriceDesc)
    [] key = S_proto -> Obj("Object.prototype")
    [] key \in ObjectPrototypeKeys -> Fn(key)
    [] OTHER -> Undef

sanitizeString(val) ==
  IF val.t # "string" THEN val
  ELSE Str(Trim(SelectSeq(val.s, NotControl)))

IsBlankInput(val) == val.t \in {"undefined", "null"} \/ val = Str(<<>>)

parseInteger(val, fallback) ==
  IF IsBlankInput(val) THEN fallback
  ELSE LET n == ParseInt10(ToStr(val))
       IN IF n.t = "nan" THEN fallback ELSE n

\* parseBoolean with a slip: no test for '' and false for whatever is not a
\* word for true
parseBoolean_falseByDefault(val, fallback) ==
  IF val.t \in {"undefined", "null"} THEN fallback
  ELSE IF val.t = "boolean" THEN val
  ELSE Bool(Trim(ToLower(ToStr(val)))
              \in {<<"1">>, <<"t", "r", "u", "e">>, <<"y", "e", "s">>})

parseBoolean(val, fallback) ==
  IF IsBlankInput(val) THEN fallback
  ELSE IF val.t = "boolean" THEN val
  ELSE LET s == Trim(ToLower(ToStr(val)))
       IN IF s \in {<<"1">>, <<"t", "r", "u", "e">>, <<"y", "e", "s">>}
            THEN Bool(TRUE)
          ELSE IF s \in {<<"0">>, <<"f", "a", "l", "s", "e">>, <<"n", "o">>}
            THEN Bool(FALSE)
          ELSE fallback

\* the array parseList returns, as a sequence of values
parseList(val) ==
  IF ~Truthy(val) THEN <<>>
  ELSE IF val.t = "array"
    THEN SelectSeq([i \in 1..Len(val.a) |-> sanitizeString(val.a[i])], Truthy)
  ELSE LET parts == Split(ToStr(val))
       IN SelectSeq([i \in 1..Len(parts) |-> sanitizeString(Str(parts[i]))],
                    Truthy)

----------------------------------------------------------------------------
(* parseDate.  An instant is kept as what it was resolved from:            *)
(*   [t |-> "date", rel |-> <<n, unit>>]   now minus n units               *)
(*   [t |-> "date", ms |-> number]         that many ms since the epoch    *)
(*   [t |-> "date", iso |-> <<y, m, d>>]   midnight UTC of that day        *)
(*   [t |-> "date", invalid |-> TRUE]      a Date whose time value is NaN  *)

InvalidDate == [t |-> "date", invalid |-> TRUE]

IsDigitRun(s) == s # <<>> /\ \A i \in 1..Len(s) : s[i] \in DigitSet

\* /^last(\d+)([dhmy])$/i
MatchesRelative(s) ==
  /\ Len(s) >= 6
  /\ ToLower(SubSeq(s, 1, 4)) = <<"l", "a", "s", "t">>
  /\ ToLowerChar(s[Len(s)]) \in {"d", "h", "m", "y"}
  /\ IsDigitRun(SubSeq(s, 5, Len(s) - 1))

\* a time value is a valid instant within 100,000,000 days of the epoch
MaxDateDays == 100000000

\* the days one unit of a relative duration spans (an hour is under a day:
\* every exact count of hours the model keeps is within range)
UnitDays(unit) ==
  CASE unit = "d" -> 1
    [] unit = "m" -> 30
    [] unit = "y" -> 365
    [] OTHER -> 0

\* new Date(now.getTime() - n * unit): no validity test follows in the code
RelativeDate(n, unit) ==
  IF n.t = "number" /\ (unit = "h" \/ n.n <= MaxDateDays \div UnitDays(unit))
    THEN [t |-> "date", rel |-> <<n.n, unit>>]
    ELSE InvalidDate

\* new Date(asNum), and null for an invalid instant
TimestampDate(asNum) ==
  IF asNum.t = "number" \/ (asNum.t = "big" /\ asNum.digits <= 15)
    THEN [t |-> "date", ms |-> asNum]
    ELSE Null

DaysInMonth(y, m) ==
  CASE m \in {4, 6, 9, 11} -> 30
    [] m = 2 -> IF (y % 4 = 0 /\ y % 100 # 0) \/ y % 400 = 0 THEN 29 ELSE 28
    [] OTHER -> 31

\* new Date(s) for a date-only ISO string YYYY-MM-DD; every other string the
\* model draws is one the engine rejects (Invalid Date), so null
IsoDate(s) ==
  IF /\ Len(s) = 10
     /\ s[5] = "-" /\ s[8] = "-"
     /\ IsDigitRun(SubSeq(s, 1, 4)) /\ IsDigitRun(SubSeq(s, 6, 7))
     /\ IsDigitRun(SubSeq(s, 9, 10))
    THEN LET y == DigitsToNat(SubSeq(s, 1, 4))
             m == DigitsToNat(SubSeq(s, 6, 7))
             d == DigitsToNat(SubSeq(s, 9, 10))
         IN IF m \in 1..12 /\ d \in 1..DaysInMonth(y, m)
              THEN [t |-> "date", iso |-> <<y, m, d>>]
              ELSE Null
    ELSE Null

parseDate(val) ==
  IF ~Truthy(val) THEN Null
  ELSE LET s == Trim(ToStr(val))
       IN IF MatchesRelative(s)
            THEN RelativeDate(DigitsToNumber(1, SubSeq(s, 5, Len(s) - 1)),
                              ToLowerChar(s[Len(s)]))
          ELSE LET asNum == ToNumber(s)
               IN IF asNum.t # "nan" /\ Len(s) >= 10
                    THEN TimestampDate(asNum)
                    ELSE IsoDate(s)

----------------------------------------------------------------------------
(* The builders' arguments.  An argument is null, undefined (omitted), a   *)
(* plain object [t |-> "object", o |-> own properties] or a URL-style      *)
(* accessor [t |-> "URLSearchParams", o |-> the parameters present].       *)

UrlParams(o) == [t |-> "URLSearchParams", o |-> o]

\* opts.name: reading a property of a plain object; an accessor object has
\* none of the parameter names as properties
Prop(v, k) == IF v.t = "object" /\ k \in DOMAIN v.o THEN v.o[k] ELSE Undef

\* query.get(name) and query.has(name)
Get(query, k) == IF k \in DOMAIN query.o THEN query.o[k] ELSE Null
HasParam(query, k) == k \in DOMAIN query.o

\* a || b
OrElse(a, b) == IF Truthy(a) THEN a ELSE b

Return(v) == [threw |-> FALSE, v |-> v]
Throw(e) == [threw |-> TRUE, e |-> e]

\* the characters kw.replace(/[.*+?^${}()|[\]\\]/g, '\\$&') escapes
RegExpMeta == {".", "*", "+", "?", "^", "$", "{", "}", "(", ")", "|", "[", "]", "\\"}

\* the escape with a slip: '.' is missing from the character class
RECURSIVE EscapeRegExp_noDot(_)
EscapeRegExp_noDot(s) ==
  IF s = <<>> THEN <<>>
  ELSE (IF s[1] \in RegExpMeta \ {"."} THEN <<"\\", s[1]>> ELSE <<s[1]>>)
         \o EscapeRegExp_noDot(Tail(s))

RECURSIVE EscapeRegExp(_)
EscapeRegExp(s) ==
  IF s = <<>> THEN <<>>
  ELSE (IF s[1] \in RegExpMeta THEN <<"\\", s[1]>> ELSE <<s[1]>>)
         \o EscapeRegExp(Tail(s))

SanitizeEach(a) == [i \in 1..Len(a) |-> sanitizeString(a[i])]

\* A filter is assembled from the entries its statements set, each either
\* one key with its value or nothing.
NoEntry == EmptyObj
Entry(k, v) == k :> v

\* evaluates v once and hands it to F
Once(F(_), v) == CHOOSE r \in {F(x) : x \in {v}} : TRUE

\* the tags / locations entry
ListFilter(k, v) ==
  IF v.t = "array" /\ Len(v.a) > 0
    THEN Entry(k, Obj("$in" :> Arr(SanitizeEach(v.a))))
  ELSE IF v.t = "string" /\ Trim(v.s) # <<>>
    THEN Once(LAMBDA arr : IF Len(arr) > 0 THEN Entry(k, Obj("$in" :> Arr(arr)))
                           ELSE NoEntry,
              parseList(v))
  ELSE NoEntry

\* the bounds of a range that were supplied
RangeOf(from, to) ==
  (IF Truthy(from) THEN Entry("$gte", from) ELSE NoEntry)
    @@ (IF Truthy(to) THEN Entry("$lte", to) ELSE NoEntry)

\* the range entry with a slip: the (possibly empty) range is always stored
RangeFilter_keepEmpty(k, from, to) == Entry(k, Obj(RangeOf(from, to)))

\* the publishedAt / examDate entry
RangeFilter(k, from, to) ==
  IF Truthy(from) \/ Truthy(to) THEN Entry(k, Obj(RangeOf(from, to)))
  ELSE NoEntry

\* the $or entry of the keywords fallback
KeywordAlternatives(kw, re) ==
  Arr(<<Obj("title_en" :> re), Obj("title_hi" :> re), Obj("title_bn" :> re),
        Obj("description" :> re), Obj("tags" :> Obj("$in" :> Arr(<<kw>>)))>>)

KeywordFilter(keywords) ==
  IF Truthy(keywords) /\ keywords.t = "string" /\ Len(Trim(keywords.s)) > 0
    THEN Once(LAMBDA kw : Entry("$or",
                            KeywordAlternatives(kw, RegExp(EscapeRegExp(kw.s), "i"))),
              sanitizeString(keywords))
    ELSE NoEntry

\* the isPaid entry
PaidFilter(isPaid) ==
  IF isPaid.t \notin {"undefined", "null"}
    THEN Entry("isPaid", Bool(Truthy(isPaid)))
    ELSE NoEntry

\* the downloads entry
DownloadsFilter(minD) ==
  IF minD # Null THEN Entry("downloads", Obj("$gte" :> minD)) ELSE NoEntry

\* the language / category / level entry
StringFilter(k, v) ==
  IF Truthy(v) THEN Entry(k, sanitizeString(v)) ELSE NoEntry

\* the filter object for destructured opts (a plain object or an accessor)
MongoFiltersOf(opts) ==
  StringFilter("language", Prop(opts, "language"))
    @@ StringFilter("category", Prop(opts, "category"))
    @@ ListFilter("tags", Prop(opts, "tags"))
    @@ ListFilter("locations", Prop(opts, "locations"))
    @@ PaidFilter(Prop(opts, "isPaid"))
    @@ Once(DownloadsFilter, parseInteger(Prop(opts, "minDownloads"), Null))
    @@ Once(LAMBDA d : RangeFilter("publishedAt", d[1], d[2]),
            <<parseDate(Prop(opts, "dateFrom")), parseDate(Prop(opts, "dateTo"))>>)
    @@ Once(LAMBDA d : RangeFilter("examDate", d[1], d[2]),
            <<parseDate(Prop(opts, "examDateFrom")),
              parseDate(Prop(opts, "examDateTo"))>>)
    @@ StringFilter("level", Prop(opts, "level"))
    @@ KeywordFilter(Prop(opts, "keywords"))

\* buildMongoFilters(opts = {}): destructuring null throws a TypeError
buildMongoFilters(opts) ==
  IF opts.t = "null" THEN Throw("TypeError")
  ELSE Return(MongoFiltersOf(IF opts.t = "undefined" THEN Obj(EmptyObj) ELSE opts))

\* the resolved { skip, limit, sort, page }
ListOptionsOf(o) ==
  LET pageIn == IF Prop(o, "page").t = "undefined" THEN Num(DEFAULT_PAGE)
                ELSE Prop(o, "page")
      limitIn == IF Prop(o, "limit").t = "undefined" THEN Num(DEFAULT_LIMIT)
                 ELSE Prop(o, "limit")
      sort == IF Prop(o, "sort").t = "undefined" THEN Str(S_score)
              ELSE Prop(o, "sort")
      page0 == parseInteger(pageIn, Num(DEFAULT_PAGE))
      limit0 == parseInteger(limitIn, Num(DEFAULT_LIMIT))
      limit1 == IF LeqZero(limit0) THEN Num(DEFAULT_LIMIT) ELSE limit0
      limit == IF GreaterThan(limit1, MAX_LIMIT) THEN Num(MAX_LIMIT) ELSE limit1
      page == IF LeqZero(page0) THEN Num(DEFAULT_PAGE) ELSE page0
      sortKey == IF sort.t = "string" /\ Truthy(SORT_MAP(sort.s))
                   THEN sort.s ELSE S_score
      sortObj == OrElse(SORT_MAP(sortKey), SORT_MAP(S_score))
  IN [skip |-> SkipOf(page, limit), limit |-> limit, sort |-> sortObj,
      page |-> page]

\* buildListOptions(opts = {}): opts || {} also covers null
buildListOptions(opts) ==
  Return(ListOptionsOf(IF Truthy(opts) THEN opts ELSE Obj(EmptyObj)))

FilterParams == {"language", "category", "tags", "locations", "isPaid",
                 "minDownloads", "dateFrom", "dateTo", "examDateFrom",
                 "examDateTo", "level", "keywords"}
ListParams == {"page", "limit", "sort"}
ParamNames == {"q"} \cup FilterParams \cup ListParams

\* the params object the wrapper reads from a URL-style accessor
ParamsFromAccessor(query) ==
  [k \in ParamNames |->
     CASE k = "q" -> OrElse(Get(query, "q"), Str(<<>>))
       [] k = "isPaid" -> IF HasParam(query, "isPaid")
                            THEN parseBoolean(Get(query, "isPaid"), Undef)
                            ELSE Undef
       [] OTHER -> OrElse(Get(query, k), Undef)]

\* the params object the wrapper reads from a plain object
ParamsFromObject(query) ==
  [k \in ParamNames |->
     CASE k = "q" -> OrElse(Prop(query, "q"), Str(<<>>))
       [] k = "isPaid" -> IF Prop(query, "isPaid").t # "undefined"
                            THEN parseBoolean(Prop(query, "isPaid"), Undef)
                            ELSE Undef
       [] OTHER -> Prop(query, k)]

\* params.tags / params.locations: a non-blank string becomes its list
NormalizeList(v) ==
  IF v.t = "string" /\ Trim(v.s) # <<>> THEN Arr(parseList(v)) ELSE v

\* buildPdfFiltersAndOptions(query = {}): query.get of null throws a TypeError
buildPdfFiltersAndOptions(query) ==
  IF query.t = "null" THEN Throw("TypeError")
  ELSE
    LET q0 == IF query.t = "undefined" THEN Obj(EmptyObj) ELSE query
        p0 == IF q0.t = "URLSearchParams" THEN ParamsFromAccessor(q0)
              ELSE ParamsFromObject(q0)
        params == [p0 EXCEPT !["tags"] = NormalizeList(@),
                             !["locations"] = NormalizeList(@)]
        filters == MongoFiltersOf(Obj(params))
        options == ListOptionsOf(Obj([k \in ListParams |-> params[k]]))
        meta == [q |-> params["q"], page |-> options.page,
                 limit |-> options.limit,
                 sort |-> OrElse(params["sort"], Str(S_score))]
    IN Return([filters |-> filters, options |-> options, meta |-> meta])

----------------------------------------------------------------------------
(* The inputs the checks draw *)

\* at most this many parameters are supplied in one request
MaxSupplied == 2
\* the length of the oversized digit string ('9' repeated)
HugeDigits == 400

\* an operator object, { $ne: null }
OpObject == Obj("$ne" :> Null)

S_en == <<"e", "n">>
S_en_dirty == <<" ", "e", "<SOH>", "n", "<LF>", " ">>
S_list == <<"a", ",", " ", "b", " ", ",", "b", ",">>
S_commas == <<" ", ",", " ">>
S_cpp == <<"C", "+", "+">>
S_dot == <<" ", "a", ".", "b", "<TAB>">>
S_ctl == <<"<SOH>">>
S_spaces == <<" ", " ">>
S_abc == <<"a", "b", "c">>
S_last7d == <<"l", "a", "s", "t", "7", "d">>
S_Last2Y == <<"L", "A", "S", "T", "2", "Y">>
S_notadate == <<"n", "o", "t", "-", "a", "-", "d", "a", "t", "e">>
S_iso == <<"2", "0", "2", "3", "-", "0", "1", "-", "3", "1">>
S_millis == <<"1", "7", "0", "0", "0", "0", "0", "0", "0", "0", "0", "0", "0">>
S_physics == <<"p", "h", "y", "s", "i", "c", "s">>
S_huge == Repeat("9", HugeDigits)

StringInputs ==
  [k \in ParamNames \cup {"$where"} |->
     CASE k \in {"language", "category", "level"} ->
            {Str(<<>>), Str(S_en), Str(S_en_dirty)}
       [] k \in {"tags", "locations"} ->
            {Str(<<>>), Str(S_list), Str(S_commas)}
       [] k = "isPaid" ->
            {Str(<<>>), Str(<<"Y", "e", "s">>), Str(<<"0">>), Str(S_abc)}
       [] k = "minDownloads" ->
            {Str(<<>>), Str(<<"1", "0">>), Str(<<"-", "5">>), Str(S_abc)}
       [] k \in {"dateFrom", "dateTo", "examDateFrom", "examDateTo"} ->
            {Str(<<>>), Str(S_last7d), Str(S_Last2Y), Str(S_iso), Str(S_millis),
             Str(S_notadate)}
       [] k = "keywords" ->
            {Str(<<>>), Str(S_cpp), Str(S_dot), Str(S_ctl), Str(S_spaces)}
       [] k = "page" ->
            {Str(<<>>), Str(<<"2">>), Str(<<"0">>), Str(<<"-", "3">>),
             Str(S_abc), Str(S_huge)}
       [] k = "limit" ->
            {Str(<<>>), Str(<<"1", "0">>), Str(<<"0">>), Str(<<"-", "5">>),
             Str(S_abc), Str(<<"2", "0", "1">>), Str(S_huge)}
       [] k = "sort" ->
            {Str(<<>>), Str(S_downloads), Str(S_latest), Str(S_oldest),
             Str(S_bogus), Str(S_constructor), Str(S_toString)}
       [] k = "q" -> {Str(<<>>), Str(S_physics)}
       [] OTHER -> {Str(<<"1">>)}]

\* what a plain object may hold besides strings
OtherInputs ==
  [k \in ParamNames \cup {"$where"} |->
     CASE k \in {"language", "category", "level"} -> {OpObject, Num(0)}
       [] k \in {"tags", "locations"} ->
            {Arr(<<Str(<<"a">>), Str(<<" ", "b">>)>>), Arr(<<OpObject>>),
             Arr(<<>>), OpObject}
       [] k = "isPaid" -> {Bool(TRUE), Bool(FALSE), Null}
       [] k = "minDownloads" -> {Num(10), Null}
       [] k = "keywords" -> {OpObject}
       [] k = "page" -> {Num(3), Num(0), Null}
       [] k = "limit" -> {Num(500), Num(-1), Null}
       [] k = "sort" -> {Num(1), Null, OpObject}
       [] k = "$where" -> {OpObject}
       [] OTHER -> {}]

AllNames == ParamNames \cup {"$where"}

\* every object of at most n properties, each drawn from vals
RECURSIVE ObjectsUpTo(_, _)
ObjectsUpTo(n, vals) ==
  IF n = 0 THEN {EmptyObj}
  ELSE LET prev == ObjectsUpTo(n - 1, vals)
       IN prev \cup UNION {{Put(ok[1], ok[2], v) : v \in vals[ok[2]]} :
                              ok \in {p \in prev \X AllNames :
                                        p[2] \notin DOMAIN p[1]}}

PlainInputs == [k \in AllNames |-> StringInputs[k] \cup OtherInputs[k]]

\* the values parameters take when several are supplied together: an empty
\* string and one usable value
CoreInputs ==
  [k \in AllNames |->
     CASE k \in {"language", "category", "level"} -> {Str(<<>>), Str(S_en)}
       [] k \in {"tags", "locations"} -> {Str(<<>>), Str(S_list)}
       [] k = "isPaid" -> {Str(<<>>), Str(<<"Y", "e", "s">>)}
       [] k = "minDownloads" -> {Str(<<>>), Str(<<"1", "0">>)}
       [] k \in {"dateFrom", "dateTo", "examDateFrom", "examDateTo"} ->
            {Str(<<>>), Str(S_last7d)}
       [] k = "keywords" -> {Str(<<>>), Str(S_cpp)}
       [] k = "page" -> {Str(<<>>), Str(<<"2">>)}
       [] k = "limit" -> {Str(<<>>), Str(<<"1", "0">>)}
       [] k = "sort" -> {Str(<<>>), Str(S_downloads)}
       [] k = "q" -> {Str(<<>>), Str(S_physics)}
       [] OTHER -> {Str(<<"1">>)}]

\* every object of one property drawn from vals
Singles(vals) == {k :> v : <<k, v>> \in UNION {{k} \X vals[k] : k \in AllNames}}

\* a call's argument: null, undefined, or either input shape holding one
\* parameter of any value or up to MaxSupplied parameters of core values
Args ==
  {Null, Undef}
    \cup {UrlParams(o) : o \in Singles(StringInputs)
                               \cup ObjectsUpTo(MaxSupplied, CoreInputs)}
    \cup {Obj(o) : o \in Singles(PlainInputs)
                           \cup ObjectsUpTo(MaxSupplied, CoreInputs)}

----------------------------------------------------------------------------
(* The filter-builder specification: one call of one builder on one input *)

NoCall == [op |-> "none"]

CallBuildMongoFilters ==
  /\ out = NoCall
  /\ out' = [op |-> "buildMongoFilters", r |-> buildMongoFilters(arg)]
  /\ UNCHANGED <<arg, store, node>>

CallBuildListOptions ==
  /\ out = NoCall
  /\ out' = [op |-> "buildListOptions", r |-> buildListOptions(arg)]
  /\ UNCHANGED <<arg, store, node>>

CallBuildPdfFiltersAndOptions ==
  /\ out = NoCall
  /\ out' = [op |-> "buildPdfFiltersAndOptions",
             r |-> buildPdfFiltersAndOptions(arg)]
  /\ UNCHANGED <<arg, store, node>>

\* the builders never touch the collection
NoStore == [up |-> TRUE, docs |-> <<>>]

InitFilters == arg \in Args /\ out = NoCall /\ store = NoStore /\ node = NodeIdle

NextFilters ==
  \/ CallBuildMongoFilters
  \/ CallBuildListOptions
  \/ CallBuildPdfFiltersAndOptions

SpecFilters == InitFilters /\ [][NextFilters]_vars

----------------------------------------------------------------------------
(* What a pattern built by new RegExp(source, 'i') matches.  The patterns   *)
(* read here are sequences of escaped characters (\c: the character c),    *)
(* the wildcard '.', and ordinary characters; any other unescaped          *)
(* metacharacter makes a pattern this reading does not cover.              *)

RECURSIVE Atoms(_)
Atoms(source) ==
  IF source = <<>> THEN <<>>
  ELSE IF source[1] = "\\" /\ Len(source) >= 2
    THEN <<[kind |-> "char", c |-> source[2]]>>
           \o Atoms(SubSeq(source, 3, Len(source)))
  ELSE IF source[1] = "."
    THEN <<[kind |-> "any", c |-> "."]>> \o Atoms(Tail(source))
  ELSE IF source[1] \in RegExpMeta
    THEN <<[kind |-> "operator", c |-> source[1]]>> \o Atoms(Tail(source))
  ELSE <<[kind |-> "char", c |-> source[1]]>> \o Atoms(Tail(source))

AtomMatches(atom, c, ignoreCase) ==
  CASE atom.kind = "char" ->
         IF ignoreCase THEN ToLowerChar(atom.c) = ToLowerChar(c) ELSE atom.c = c
    [] atom.kind = "any" -> c \notin {"<LF>", "<CR>"}
    [] OTHER -> FALSE

\* re.test(text): the pattern matches somewhere in the text
RegExpTest(re, text) ==
  LET atoms == Atoms(re.source)
      n == Len(atoms)
  IN \E start \in 0..(Len(text) - n) :
       \A j \in 1..n : AtomMatches(atoms[j], text[start + j], re.flags = "i")

----------------------------------------------------------------------------
(* Claims about the Filter Builder, checked under SpecFilters *)

\* the value a request supplies for parameter p (undefined when absent)
ArgParam(a, p) ==
  IF a.t \in {"object", "URLSearchParams"} /\ p \in DOMAIN a.o THEN a.o[p]
  ELSE Undef

\* the value the finished call read for parameter p: buildMongoFilters and
\* buildListOptions read properties, which an accessor object does not have
CallParam(p) ==
  IF out.op \in {"buildMongoFilters", "buildListOptions"} THEN Prop(arg, p)
  ELSE ArgParam(arg, p)

Supplied(v) == v.t \notin {"undefined", "null"} /\ v # Str(<<>>)

Returned(o) == o.op # "none" /\ ~o.r.threw

\* the filter a finished call returned
FiltersOut ==
  IF out.op = "buildMongoFilters" THEN out.r.v ELSE out.r.v.filters

FilterCall ==
  out.op \in {"buildMongoFilters", "buildPdfFiltersAndOptions"} /\ Returned(out)

\* C1: in every filter returned by buildMongoFilters or
\* buildPdfFiltersAndOptions, the values under language, category and level
\* are plain strings and every member of tags.$in and locations.$in is a
\* plain string (no caller-supplied object reaches the filter).
C1_FilterValuesArePlainStrings ==
  FilterCall =>
    /\ \A k \in {"language", "category", "level"} \cap DOMAIN FiltersOut :
         FiltersOut[k].t = "string"
    /\ \A k \in {"tags", "locations"} \cap DOMAIN FiltersOut :
         \A i \in 1..Len(FiltersOut[k].o["$in"].a) :
           FiltersOut[k].o["$in"].a[i].t = "string"

SortTableNames ==
  {S_score, S_downloads, S_latest, S_oldest, S_price_asc, S_price_desc}

IsSortTableName(v) == v.t = "string" /\ v.s \in SortTableNames

\* C3: for every sort value that is not one of the six table names,
\* buildListOptions returns normally with exactly the default score order.
C3_UnrecognizedSortIsDefault ==
  (out.op = "buildListOptions" /\ ~IsSortTableName(CallParam("sort")))
    => Returned(out) /\ out.r.v.sort = Obj(SortScore)

\* C4: no call of buildPdfFiltersAndOptions, buildMongoFilters or
\* buildListOptions throws, whatever the argument (null included).
C4_BuildersNeverThrow == out.op # "none" => ~out.r.threw

\* every recognized parameter is absent or an empty string
AllBlank(a) ==
  /\ a.t \in {"object", "URLSearchParams"}
  /\ \A k \in ParamNames \cap DOMAIN a.o : a.o[k] = Str(<<>>)

\* C5: when every recognized parameter is absent or '', in either input
\* shape, buildPdfFiltersAndOptions returns a filter with no keys, page 1,
\* limit 12, skip 0 and the default (score) sort order.
C5_BlankInputYieldsDefaults ==
  (out.op = "buildPdfFiltersAndOptions" /\ AllBlank(arg)) =>
    /\ Returned(out)
    /\ DOMAIN out.r.v.filters = {}
    /\ out.r.v.options.page = Num(1)
    /\ out.r.v.options.limit = Num(12)
    /\ out.r.v.options.skip = Num(0)
    /\ out.r.v.options.sort = Obj(SortScore)

\* C5's case: blank isPaid and blank limit given through the URL accessor
C5_Witness ==
  /\ out.op = "buildPdfFiltersAndOptions"
  /\ arg.t = "URLSearchParams"
  /\ AllBlank(arg)
  /\ {"isPaid", "limit"} \subseteq DOMAIN arg.o

\* page / limit inputs by what they denote
NonPositiveOrNonNumeric ==
  {Str(<<>>), Str(<<"0">>), Str(<<"-", "3">>), Str(<<"-", "5">>), Str(S_abc),
   Num(0), Num(-1), Null}
AboveMaxLimit == {Str(<<"2", "0", "1">>), Str(S_huge), Num(500)}

\* C6: for every page and limit input, buildListOptions returns an integer
\* page >= 1 (1 when the input is <= 0 or non-numeric), an integer limit in
\* 1..200 (12 when the input is absent, 0, negative or non-numeric, 200 when
\* above 200) and skip = (page - 1) * limit >= 0.
C6_PageLimitSkipResolved ==
  out.op = "buildListOptions" =>
    /\ Returned(out)
    /\ out.r.v.page.t = "number" /\ out.r.v.page.n >= 1
    /\ out.r.v.limit.t = "number" /\ out.r.v.limit.n \in 1..200
    /\ out.r.v.skip = Num((out.r.v.page.n - 1) * out.r.v.limit.n)
    /\ out.r.v.skip.n >= 0
    /\ (CallParam("page") \in NonPositiveOrNonNumeric
          => out.r.v.page = Num(1))
    /\ (CallParam("limit") \in NonPositiveOrNonNumeric \cup {Undef}
          => out.r.v.limit = Num(12))
    /\ (CallParam("limit") \in AboveMaxLimit => out.r.v.limit = Num(200))

FilterKeys ==
  {"language", "category", "tags", "locations", "isPaid", "downloads",
   "publishedAt", "examDate", "level", "$or"}

\* the parameters a filter key comes from
ParamsOfKey(k) ==
  CASE k = "downloads" -> {"minDownloads"}
    [] k = "publishedAt" -> {"dateFrom", "dateTo"}
    [] k = "examDate" -> {"examDateFrom", "examDateTo"}
    [] k = "$or" -> {"keywords"}
    [] OTHER -> {k}

\* the request without the parameters outside the recognized set
Recognized(a) ==
  IF a.t \in {"object", "URLSearchParams"}
    THEN [a EXCEPT !.o = [k \in DOMAIN a.o \cap ParamNames |-> a.o[k]]]
    ELSE a

Texts ==
  {<<>>, S_cpp, <<"a", " ", "c", "+", "+", "!">>, <<"C", "C">>,
   <<"a", "x", "b">>, <<"X", "A", ".", "B">>, <<"a", "b">>}

\* text contains kw as a literal substring, ignoring case
ContainsIgnoringCase(text, kw) ==
  \E start \in 0..(Len(text) - Len(kw)) :
    ToLower(SubSeq(text, start + 1, start + Len(kw))) = ToLower(kw)

IsNonBlankString(v) ==
  v.t = "string" /\ \E i \in 1..Len(v.s) : v.s[i] \notin WhiteSpace

\* C8: whenever keywords is a non-blank string, $or holds the same
\* case-insensitive pattern on title_en, title_hi, title_bn and description,
\* the pattern has no unescaped metacharacter and matches exactly the texts
\* that contain the sanitized keyword literally (ignoring case), and the
\* fifth alternative is exact tag membership of the sanitized keyword.
C8_KeywordPatternIsLiteral ==
  (FilterCall /\ IsNonBlankString(CallParam("keywords"))) =>
    /\ "$or" \in DOMAIN FiltersOut
    /\ LET alts == FiltersOut["$or"].a
           kw == sanitizeString(CallParam("keywords"))
           re == alts[1].o["title_en"]
       IN /\ Len(alts) = 5
          /\ alts[2] = Obj("title_hi" :> re)
          /\ alts[3] = Obj("title_bn" :> re)
          /\ alts[4] = Obj("description" :> re)
          /\ alts[5] = Obj("tags" :> Obj("$in" :> Arr(<<kw>>)))
          /\ re.t = "regexp" /\ re.flags = "i"
          /\ \A i \in 1..Len(Atoms(re.source)) :
               Atoms(re.source)[i].kind = "char"
          /\ \A text \in Texts :
               RegExpTest(re, text) <=> ContainsIgnoringCase(text, kw.s)

\* C8's case: keywords 'C++' reached the filter and matches a text with C++
C8_Witness ==
  /\ FilterCall
  /\ CallParam("keywords") = Str(S_cpp)
  /\ RegExpTest(FiltersOut["$or"].a[1].o["title_en"],
                <<"a", " ", "c", "+", "+", "!">>)

----------------------------------------------------------------------------
(* src/lib/atlasSearch.js: buildPdfSearchPipeline *)

\* locations?.length
LengthOf(v) ==
  CASE v.t = "array" -> Len(v.a)
    [] v.t = "string" -> Len(v.s)
    [] OTHER -> 0

TextPaths == <<"title_en", "title_hi", "title_bn", "keywords.en", "keywords.hi",
               "keywords.bn", "tags", "category">>
HighlightPaths == <<"title_en", "title_hi", "title_bn", "keywords.en", "tags">>
ProjectFields == {"title_en", "title_hi", "title_bn", "category", "tags",
                  "language", "seoSlug", "downloads", "createdAt", "r2Key",
                  "price", "isPaid", "score", "highlights"}

TextClause(q) ==
  [op |-> "text", query |-> q, path |-> TextPaths,
   fuzzy |-> [maxEdits |-> 2, prefixLength |-> 2]]
EqualsClause(path, value) == [op |-> "equals", path |-> path, value |-> value]
InClause(path, value) == [op |-> "in", path |-> path, value |-> value]

\* the should list with a slip: the text clause is pushed whatever q is
ShouldClauses_always(q) == <<TextClause(q)>>

\* the should and must lists the builder collects
ShouldClauses(q) == IF Truthy(q) THEN <<TextClause(q)>> ELSE <<>>
MustClauses(language, category, locations) ==
  (IF Truthy(language) THEN <<EqualsClause("language", language)>> ELSE <<>>)
    \o (IF Truthy(category) THEN <<EqualsClause("category", category)>> ELSE <<>>)
    \o (IF LengthOf(locations) > 0 THEN <<InClause("locations", locations)>>
        ELSE <<>>)

\* should.length ? should : undefined
ListOrUndefined(clauses) == IF Len(clauses) > 0 THEN Arr(clauses) ELSE Undef

SearchStage(q, language, category, locations) ==
  [stage |-> "$search", index |-> "pdf_search_index",
   compound |-> [should |-> ListOrUndefined(ShouldClauses(q)),
                 must |-> ListOrUndefined(MustClauses(language, category,
                                                      locations))],
   highlight |-> HighlightPaths]

\* the pipeline's $sort stage with a slip: 'latest' is not recognized
SortStage_noLatest(sort) ==
  IF sort = Str(S_downloads) THEN [stage |-> "$sort", by |-> SortDownloads]
  ELSE [stage |-> "$sort", by |-> SortScore]

SortStage(sort) ==
  IF sort = Str(S_downloads) THEN [stage |-> "$sort", by |-> SortDownloads]
  ELSE IF sort = Str(S_latest) THEN [stage |-> "$sort", by |-> SortLatest]
  ELSE [stage |-> "$sort", by |-> SortScore]

\* $facet: { results: [{ $skip }, { $limit }], totalCount: [{ $count }] }
FacetStage(page, limit) ==
  [stage |-> "$facet", skip |-> SkipOf(page, limit), limit |-> limit,
   count |-> "count"]

DefaultTo(v, d) == IF v.t = "undefined" THEN d ELSE v
DEFAULT_PIPELINE_LIMIT == 10

\* buildPdfSearchPipeline({ q, language, ..., limit = 10 }): destructuring
\* null or undefined throws a TypeError
buildPdfSearchPipeline(options) ==
  IF options.t \in {"null", "undefined"} THEN Throw("TypeError")
  ELSE Return(
    <<SearchStage(Prop(options, "q"), Prop(options, "language"),
                  Prop(options, "category"), Prop(options, "locations")),
      [stage |-> "$addFields", score |-> "searchScore",
       highlights |-> "searchHighlights"],
      [stage |-> "$project", fields |-> ProjectFields],
      SortStage(DefaultTo(Prop(options, "sort"), Str(S_score))),
      FacetStage(DefaultTo(Prop(options, "page"), Num(1)),
                 DefaultTo(Prop(options, "limit"), Num(DEFAULT_PIPELINE_LIMIT)))>>)

----------------------------------------------------------------------------
(* The execution layer: what the document store does with a pipeline or a  *)
(* filter.  store.docs lists the collection in the order the request's     *)
(* sort leaves it; a document's terms are the queries the text operator    *)
(* matches it on.                                                          *)

S_hi == <<"h", "i">>
S_nda == <<"n", "d", "a">>
S_railway == <<"r", "a", "i", "l", "w", "a", "y">>
S_pune == <<"p", "u", "n", "e">>
S_delhi == <<"d", "e", "l", "h", "i">>

\* one clause of a compound operator on one document
ClauseMatches(doc, c) ==
  CASE c.op = "text" -> c.query.t = "string" /\ c.query.s \in doc.terms
    [] c.op = "equals" -> c.path \in DOMAIN doc /\ doc[c.path] = c.value
    [] c.op = "in" ->
         /\ c.path \in DOMAIN doc /\ c.value.t = "array"
         /\ \E i \in 1..Len(c.value.a) : c.value.a[i] \in doc[c.path]
    [] OTHER -> FALSE

ClausesOf(v) == IF v.t = "array" THEN v.a ELSE <<>>

\* compound: every must clause matches; the should clauses only score,
\* unless there is no must clause, and then at least one has to match
CompoundAdmits(doc, compound) ==
  LET must == ClausesOf(compound.must)
      should == ClausesOf(compound.should)
  IN /\ \A i \in 1..Len(must) : ClauseMatches(doc, must[i])
     /\ (Len(must) = 0 =>
           \E i \in 1..Len(should) : ClauseMatches(doc, should[i]))

\* $addFields { score } and $project: the listed fields and _id
Projected(doc, compound, fields) ==
  LET scored == Put(doc, "score",
                    IF \E i \in 1..Len(ClausesOf(compound.should)) :
                         ClauseMatches(doc, ClausesOf(compound.should)[i])
                      THEN Num(1) ELSE Num(0))
  IN [f \in (DOMAIN scored \cap fields) \cup {"_id"} |-> scored[f]]

\* items skip+1 .. skip+limit of a list
Page(items, skip, limit) ==
  IF skip >= Len(items) THEN <<>>
  ELSE SubSeq(items, skip + 1, Min({skip + limit, Len(items)}))

\* the matches of the $search stage in ranked order, as $project leaves them
Ranked(pipeline, docs) ==
  LET Admitted(d) == CompoundAdmits(d, pipeline[1].compound)
  IN Once(LAMBDA hits : [i \in 1..Len(hits) |->
                           Projected(hits[i], pipeline[1].compound,
                                     pipeline[3].fields)],
          SelectSeq(docs, Admitted))

\* the one document the $facet stage emits
Faceted(ranked, facet) ==
  <<[results |-> Page(ranked, facet.skip.n, facet.limit.n),
     totalCount |-> IF Len(ranked) = 0 THEN <<>> ELSE <<[count |-> Len(ranked)]>>]>>

\* Pdf.aggregate(pipeline).exec(): one document for the $facet stage, or an
\* error for a compound without clauses or a $skip / $limit out of range
Aggregate(pipeline, docs) ==
  IF /\ pipeline[1].compound.must.t = "undefined"
     /\ pipeline[1].compound.should.t = "undefined"
    THEN Throw("MongoServerError")
  ELSE IF pipeline[5].skip.t # "number" \/ pipeline[5].limit.t # "number"
    THEN Throw("MongoServerError")
  ELSE IF pipeline[5].skip.n < 0 \/ pipeline[5].limit.n < 1
    THEN Throw("MongoServerError")
  ELSE Return(Once(LAMBDA ranked : Faceted(ranked, pipeline[5]),
                   Ranked(pipeline, docs)))

\* one entry of a find filter on one document
FieldMatches(doc, k, cond) ==
  CASE k = "$or" ->
         \E i \in 1..Len(cond.a) :
           \E f \in DOMAIN cond.a[i].o :
             /\ f \in DOMAIN doc
             /\ IF cond.a[i].o[f].t = "regexp"
                  THEN RegExpTest(cond.a[i].o[f], doc[f].s)
                  ELSE \E j \in 1..Len(cond.a[i].o[f].o["$in"].a) :
                         cond.a[i].o[f].o["$in"].a[j] \in doc[f]
    [] k \notin DOMAIN doc -> FALSE
    [] cond.t = "object" /\ "$in" \in DOMAIN cond.o ->
         \E j \in 1..Len(cond.o["$in"].a) : cond.o["$in"].a[j] \in doc[k]
    [] cond.t = "object" /\ "$ne" \in DOMAIN cond.o -> doc[k] # cond.o["$ne"]
    [] cond.t = "object" /\ "$gte" \in DOMAIN cond.o ->
         /\ doc[k].t = "number" /\ cond.o["$gte"].t = "number"
         /\ doc[k].n >= cond.o["$gte"].n
    [] OTHER -> doc[k] = cond

FilterMatches(doc, filters) ==
  \A k \in DOMAIN filters : FieldMatches(doc, k, filters[k])

Ceil(a, b) == (a + b - 1) \div b

InternalServerError ==
  [status |-> 500, body |-> [success |-> FALSE, error |-> "Internal Server Error"]]

\* the envelope both branches of GET /api/pdfs return
Envelope(results, total, page, limit) ==
  [status |-> 200,
   body |-> [success |-> TRUE, results |-> results, total |-> total,
             page |-> page, limit |-> limit,
             totalPages |-> IF limit.n > 0 THEN Ceil(total, limit.n) ELSE 0]]

\* locationsParam.split(',').map(s => s.trim()).filter(Boolean), or []
LocationsOf(param) ==
  IF Truthy(param)
    THEN LET parts == Split(param.s)
         IN Arr(SelectSeq([i \in 1..Len(parts) |-> Str(Trim(parts[i]))], Truthy))
    ELSE Arr(<<>>)

\* the options GET /api/pdfs hands to buildPdfSearchPipeline
PipelineOptionsOf(query, q, options) ==
  Obj([k \in {"q", "language", "category", "locations", "sort", "page", "limit"} |->
         CASE k = "q" -> q
           [] k = "locations" -> LocationsOf(Get(query, "locations"))
           [] k = "sort" -> OrElse(Get(query, "sort"), Str(S_score))
           [] k = "page" -> options.page
           [] k = "limit" -> options.limit
           [] OTHER -> OrElse(Get(query, k), Undef)])

\* (agg0.totalCount && agg0.totalCount[0] && agg0.totalCount[0].count) || 0
TotalOf(agg0) ==
  IF Len(agg0.totalCount) > 0 THEN agg0.totalCount[1].count ELSE 0

\* the q branch: aggregate, then shape the envelope
SearchResponse(pipeline, options, docs) ==
  Once(LAMBDA agg : IF agg.threw THEN InternalServerError
                    ELSE Envelope(agg.v[1].results, TotalOf(agg.v[1]),
                                  options.page, options.limit),
       Aggregate(pipeline, docs))

\* find(filters, projection) in the collection's order
Found(filters, docs) ==
  LET Matching(d) == FilterMatches(d, filters)
  IN Once(LAMBDA found : [i \in 1..Len(found) |->
                            [f \in DOMAIN found[i] \ {"terms", "description"} |->
                               found[i][f]]],
          SelectSeq(docs, Matching))

\* the filter-only branch: find, sort, skip, limit and a count
FindResponse(filters, options, docs) ==
  IF options.sort.t # "object" \/ options.skip.t # "number"
    THEN InternalServerError
  ELSE Once(LAMBDA listed :
              Envelope(Page(listed, options.skip.n, options.limit.n),
                       IF DOMAIN filters = {} THEN Len(docs) ELSE Len(listed),
                       options.page, options.limit),
            Found(filters, docs))

----------------------------------------------------------------------------
(* GET /api/pdfs and the search specification *)

\* the collection holds at most this many documents
MaxDocs == 29

\* document i of the collection
Doc(i) ==
  [_id |-> i,
   terms |-> IF i % 7 = 0 THEN {} ELSE {S_physics},
   language |-> IF i % 2 = 1 THEN Str(S_en) ELSE Str(S_hi),
   category |-> IF i % 3 = 0 THEN Str(S_nda) ELSE Str(S_railway),
   locations |-> IF i % 4 = 1 THEN {Str(S_delhi)} ELSE {Str(S_pune)},
   description |-> Str(S_abc)]

\* a reachable collection of any size up to MaxDocs, or an unreachable one
Stores == {[up |-> TRUE, docs |-> [i \in 1..n |-> Doc(i)]] : n \in 0..MaxDocs}
            \cup {[up |-> FALSE, docs |-> <<>>]}

\* the query strings the search requests draw
SearchInputs ==
  [k \in {"q", "language", "category", "locations", "sort", "page", "limit"} |->
     CASE k = "q" -> {Str(<<" ", "p", "h", "y", "s", "i", "c", "s">>), Str(S_spaces)}
       [] k = "language" -> {Str(S_en)}
       [] k = "category" -> {Str(S_nda)}
       [] k = "locations" -> {Str(<<"d", "e", "l", "h", "i", ",", " ", ",">>)}
       [] k = "sort" -> {Str(S_downloads), Str(S_bogus)}
       [] k = "page" -> {Str(<<"2">>), Str(S_huge)}
       [] k = "limit" -> {Str(<<"1", "0">>)}]

\* every choice of present parameters and their values
RECURSIVE RequestsOver(_)
RequestsOver(names) ==
  IF names = {} THEN {EmptyObj}
  ELSE LET k == CHOOSE x \in names : TRUE
           rest == RequestsOver(names \ {k})
       IN rest \cup {Put(o, k, v) : o \in rest, v \in SearchInputs[k]}

SearchRequests == {UrlParams(o) : o \in RequestsOver(DOMAIN SearchInputs)}

\* option objects for direct calls of buildPdfSearchPipeline
DirectOptions ==
  {Null, Undef}
    \cup {Obj([q |-> q, language |-> l, category |-> c, locations |-> loc,
               sort |-> s, page |-> p, limit |-> lim]) :
            q \in {Undef, Str(<<>>), Str(S_physics), Str(S_spaces)},
            l \in {Undef, Str(<<>>), Str(S_en)},
            c \in {Undef, Str(S_nda)},
            loc \in {Undef, Arr(<<>>), Arr(<<Str(S_pune)>>)},
            s \in {Undef, Null, Num(1), Str(S_score), Str(S_downloads),
                    Str(S_latest), Str(S_oldest), Str(S_bogus),
                    Str(S_constructor)},
            p \in {Undef, Num(2)},
            lim \in {Undef, Num(5)}}

\* what the handler leaves behind once the pipeline (if any) is built
Handled(q, built, pipeline) ==
  [op |-> "GET", q |-> q, filters |-> built.filters, options |-> built.options,
   pipeline |-> IF store.up /\ Truthy(q) THEN pipeline ELSE <<>>,
   response |-> IF ~store.up THEN InternalServerError
                ELSE IF Truthy(q)
                  THEN SearchResponse(pipeline, built.options, store.docs)
                ELSE FindResponse(built.filters, built.options, store.docs)]

WithPipeline(query, q, built) ==
  Once(LAMBDA pipeline : Handled(q, built, pipeline),
       buildPdfSearchPipeline(PipelineOptionsOf(query, q, built.options)).v)

\* GET /api/pdfs
GET ==
  /\ out = NoCall
  /\ arg.t = "URLSearchParams"
  /\ out' = Once(LAMBDA built :
                   Once(LAMBDA q : WithPipeline(arg, q, built),
                        Str(Trim(OrElse(Get(arg, "q"), Str(<<>>)).s))),
                 buildPdfFiltersAndOptions(arg).v)
  /\ UNCHANGED <<arg, store, node>>

CallBuildPdfSearchPipeline ==
  /\ out = NoCall
  /\ arg.t # "URLSearchParams"
  /\ out' = [op |-> "buildPdfSearchPipeline", r |-> buildPdfSearchPipeline(arg)]
  /\ UNCHANGED <<arg, store, node>>

InitSearch ==
  /\ out = NoCall /\ node = NodeIdle
  /\ \/ arg \in SearchRequests /\ store \in Stores
     \/ arg \in DirectOptions /\ store = NoStore

NextSearch == GET \/ CallBuildPdfSearchPipeline

SpecSearch == InitSearch /\ [][NextSearch]_vars

----------------------------------------------------------------------------
(* Claims about the search pipeline and GET /api/pdfs *)

\* a finished call that built a pipeline
PipelineBuilt ==
  \/ out.op = "buildPdfSearchPipeline" /\ ~out.r.threw
  \/ out.op = "GET" /\ out.pipeline # <<>>

\* the pipeline it built and the options it was built from
PipelineOut == IF out.op = "GET" THEN out.pipeline ELSE out.r.v
PipelineIn ==
  IF out.op = "GET" THEN PipelineOptionsOf(arg, out.q, out.options) ELSE arg

\* the filter clauses the options ask for, by path
FilterAsked(options, path) ==
  IF path = "locations" THEN LengthOf(Prop(options, path)) > 0
  ELSE Truthy(Prop(options, path))

\* a document meets the filter the options ask for on a path
MeetsFilter(doc, options, path) ==
  IF path = "locations"
    THEN \E i \in 1..Len(Prop(options, path).a) :
           Prop(options, path).a[i] \in doc.locations
  ELSE doc[path] = Prop(options, path)

FilterPaths == {"language", "category", "locations"}

\* C2: when buildPdfSearchPipeline is given a non-empty q and at least one of
\* language, category and locations, the $search stage admits a document only
\* if it satisfies the text match and every supplied filter; no document that
\* fails the text match is admitted by the filters alone.
C2_TextAndFiltersConjunctive ==
  (/\ PipelineBuilt
   /\ Truthy(Prop(PipelineIn, "q"))
   /\ \E path \in FilterPaths : FilterAsked(PipelineIn, path))
    => \A i \in 1..MaxDocs :
         CompoundAdmits(Doc(i), PipelineOut[1].compound)
           => /\ Prop(PipelineIn, "q").s \in Doc(i).terms
              /\ \A path \in FilterPaths :
                   FilterAsked(PipelineIn, path)
                     => MeetsFilter(Doc(i), PipelineIn, path)

\* the order the claim gives for a sort name
SortStageOrder(sort) ==
  IF sort = Str(S_downloads) THEN SortDownloads
  ELSE IF sort = Str(S_latest) THEN SortLatest
  ELSE SortScore

\* C9: the $sort stage of buildPdfSearchPipeline is downloads, createdAt for
\* 'downloads', createdAt for 'latest' and score, downloads, createdAt for
\* 'score' and every other value; for 'downloads' and 'bogus' buildListOptions
\* yields the same order as the pipeline.
C9_SortStageOrders ==
  /\ PipelineBuilt
       => PipelineOut[4].by =
            SortStageOrder(DefaultTo(Prop(PipelineIn, "sort"), Str(S_score)))
  /\ (/\ out.op = "GET" /\ out.pipeline # <<>>
      /\ Get(arg, "sort") \in {Str(S_downloads), Str(S_bogus)})
       => out.options.sort = Obj(out.pipeline[4].by)

C9_Witness ==
  /\ out.op = "GET" /\ out.pipeline # <<>>
  /\ Get(arg, "sort") = Str(S_bogus)
  /\ out.pipeline[4].by = SortScore
  /\ out.options.sort = Obj(SortScore)

\* items first .. last of a list
Items(list, first, last) == [i \in 1..(last - first + 1) |-> list[first + i - 1]]

\* items (p-1)*l+1 .. min(p*l, n) of a list of n, none when p is beyond every
\* finite page
PageItems(list, p, l) ==
  IF p.t = "number"
    THEN Items(list, (p.n - 1) * l + 1, Min({p.n * l, Len(list)}))
  ELSE <<>>

\* C10: for n ranked matches and the resolved page p and limit l, the $facet
\* stage and the envelope of GET /api/pdfs give results = items (p-1)*l+1 ..
\* min(p*l, n) of the ranked order, total = n and totalPages = ceil(n / l).
C10_FacetPageAndTotals ==
  (out.op = "GET" /\ store.up /\ Truthy(out.q))
    => \A ranked \in {Ranked(out.pipeline, store.docs)} :
         /\ out.response.status = 200
         /\ out.response.body.results =
              PageItems(ranked, out.options.page, out.options.limit.n)
         /\ Len(out.response.body.results) <= out.options.limit.n
         /\ out.response.body.total = Len(ranked)
         /\ out.response.body.totalPages =
              Ceil(Len(ranked), out.options.limit.n)

\* the same for the pages a collection can number: the page is an integer
C10_FacetPageAndTotalsForIntegerPage ==
  (out.op = "GET" /\ out.options.page.t = "number") => C10_FacetPageAndTotals

\* page 2 of 25 matches by tens: items 11 to 20, total 25, three pages
C10_Example ==
  /\ out.op = "GET" /\ store.up /\ Truthy(out.q)
  /\ out.options.page = Num(2) /\ out.options.limit = Num(10)
  /\ Len(Ranked(out.pipeline, store.docs)) = 25
  /\ out.response.body.results = Items(Ranked(out.pipeline, store.docs), 11, 20)
  /\ out.response.body.total = 25
  /\ out.response.body.totalPages = 3

\* the clauses of a built $search stage, should and must together
ClausesBuilt ==
  ClausesOf(PipelineOut[1].compound.should) \o ClausesOf(PipelineOut[1].compound.must)

\* clause c is among the built ones, in the list the builder puts it in
InShould(c) ==
  \E i \in 1..Len(ClausesOf(PipelineOut[1].compound.should)) :
    ClausesOf(PipelineOut[1].compound.should)[i] = c
InMust(c) ==
  \E i \in 1..Len(ClausesOf(PipelineOut[1].compound.must)) :
    ClausesOf(PipelineOut[1].compound.must)[i] = c

NonEmptyString(v) == v.t = "string" /\ Len(v.s) > 0
NonEmptyList(v) == v.t = "array" /\ Len(v.a) > 0

\* C11: in every pipeline buildPdfSearchPipeline returns, the text clause is
\* there exactly when q is a non-empty term, the equals clauses on language
\* and category and the in clause on locations are each there exactly when
\* their parameter is supplied (locations: a non-empty list), and there is no
\* other clause.
C11_ClausesExactlyForSuppliedParameters ==
  PipelineBuilt =>
    /\ InShould(TextClause(Prop(PipelineIn, "q")))
         <=> NonEmptyString(Prop(PipelineIn, "q"))
    /\ \A path \in {"language", "category"} :
         InMust(EqualsClause(path, Prop(PipelineIn, path)))
           <=> NonEmptyString(Prop(PipelineIn, path))
    /\ InMust(InClause("locations", Prop(PipelineIn, "locations")))
         <=> NonEmptyList(Prop(PipelineIn, "locations"))
    /\ Len(ClausesBuilt) =
         Cardinality({k \in {"q", "language", "category"} :
                        NonEmptyString(Prop(PipelineIn, k))})
           + (IF NonEmptyList(Prop(PipelineIn, "locations")) THEN 1 ELSE 0)

\* C11's case: a direct call with an empty q and a language: the language
\* clause alone
C11_Witness ==
  /\ out.op = "buildPdfSearchPipeline" /\ ~out.r.threw
  /\ Prop(arg, "q") = Str(<<>>)
  /\ Prop(arg, "language") = Str(S_en)
  /\ Prop(arg, "category") = Undef
  /\ Prop(arg, "locations") = Arr(<<>>)
  /\ ClausesBuilt = <<EqualsClause("language", Str(S_en))>>

\* the plain object holding the same values as a URL-style accessor
AsPlainObject(query) == Obj(query.o)

\* value.split(','): the array a caller gets by splitting the string
SplitOnCommas(v) == Arr([i \in 1..Len(Split(v.s)) |-> Str(Split(v.s)[i])])

\* the plain object that gives tags / locations as the split array
WithListsSplit(query) ==
  Obj([k \in DOMAIN query.o |->
         IF k \in {"tags", "locations"} THEN SplitOnCommas(query.o[k])
         ELSE query.o[k]])

\* the same values given as a plain object yield the same result
C12_SameForPlainObject ==
  (out.op = "buildPdfFiltersAndOptions" /\ arg.t = "URLSearchParams")
    => out.r = buildPdfFiltersAndOptions(AsPlainObject(arg))

\* C12: for every assignment of strings to the recognized parameters,
\* buildPdfFiltersAndOptions returns the same filter, options and meta for a
\* URL-style accessor, for a plain object of the same values, and for a plain
\* object whose tags / locations are the string split on commas.
C12_InputShapesAgree ==
  (out.op = "buildPdfFiltersAndOptions" /\ arg.t = "URLSearchParams")
    => /\ out.r = buildPdfFiltersAndOptions(AsPlainObject(arg))
       /\ out.r = buildPdfFiltersAndOptions(WithListsSplit(arg))

\* C13: in every result of buildPdfFiltersAndOptions, meta.page and
\* meta.limit are the resolved options.page and options.limit, and meta.sort
\* is the table name of the order options.sort applies: 'score' whenever the
\* requested name is absent or not in the table.
C13_MetaEchoIsNormalized ==
  (out.op = "buildPdfFiltersAndOptions" /\ Returned(out)) =>
    /\ out.r.v.meta.page = out.r.v.options.page
    /\ out.r.v.meta.limit = out.r.v.options.limit
    /\ IsSortTableName(out.r.v.meta.sort)
    /\ SORT_MAP(out.r.v.meta.sort.s) = out.r.v.options.sort
    /\ (~IsSortTableName(CallParam("sort"))
          => out.r.v.meta.sort = Str(S_score))

\* the part of C13 the code keeps: page and limit are echoed as resolved
C13_MetaPageAndLimitAreResolved ==
  (out.op = "buildPdfFiltersAndOptions" /\ Returned(out)) =>
    /\ out.r.v.meta.page = out.r.v.options.page
    /\ out.r.v.meta.limit = out.r.v.options.limit

----------------------------------------------------------------------------
(* src/lib/jwt.js and src/lib/auth.js: tokens and getUserFromRequest.      *)
(* A token is [t |-> "jwt", key, sub, roles, expired]: key names the       *)
(* secret it was signed with ("access" for JWT_SECRET, "refresh" for       *)
(* JWT_REFRESH_SECRET, "other" for a secret the server does not hold).     *)
(* The random jti of a payload plays no part in verification and is left   *)
(* out.                                                                    *)

Jwt(key, sub, roles, expired) ==
  [t |-> "jwt", key |-> key, sub |-> sub, roles |-> roles, expired |-> expired]

\* jwt.verify(token, secret, { algorithms: ['HS256'] }): the payload, or an
\* error for a token signed with another secret or past its expiry
VerifyWith(token, key) ==
  IF token.t = "jwt" /\ token.key = key /\ ~token.expired
    THEN Return([sub |-> token.sub, roles |-> token.roles])
    ELSE Throw("JsonWebTokenError")

verifyAccessToken(token) ==
  IF ~Truthy(token) THEN Throw("Error") ELSE VerifyWith(token, "access")

verifyRefreshToken(token) ==
  IF ~Truthy(token) THEN Throw("Error") ELSE VerifyWith(token, "refresh")

\* roles = [] by default; Array.isArray(roles) ? roles : [roles]
buildPayload(userId, roles) ==
  [sub |-> userId, roles |-> IF roles.t = "array" THEN roles ELSE Arr(<<roles>>)]

signAccessToken(userId, roles) ==
  Jwt("access", buildPayload(userId, roles).sub, buildPayload(userId, roles).roles,
      FALSE)

signRefreshToken(userId, roles) ==
  Jwt("refresh", buildPayload(userId, roles).sub,
      buildPayload(userId, roles).roles, FALSE)

\* /^\s*Bearer\s+(.+)$/i on the Authorization header value
extractBearerTokenFromHeaderValue(headerVal) ==
  IF ~Truthy(headerVal) THEN Null
  ELSE IF headerVal.scheme = "Bearer" THEN headerVal.token
  ELSE Null

\* an Authorization header value with its scheme and credentials
Header(scheme, token) == [t |-> "header", scheme |-> scheme, token |-> token]

\* a request is [kind, authorization, refreshToken]: kind "next" has
\* headers.get, kind "express" has a headers object, kind "other" neither
readTokensFromRequest(req) ==
  IF req.kind \in {"next", "express"}
    THEN [accessToken |-> extractBearerTokenFromHeaderValue(req.authorization),
          refreshToken |-> req.refreshToken,
          ctx |-> req.kind]
    ELSE [accessToken |-> Null, refreshToken |-> Null, ctx |-> "unknown"]

\* User.findById(userId).select('-passwordHash').lean()
FindUserById(users, userId) ==
  IF userId \in DOMAIN users THEN users[userId] ELSE Null

\* a || b on a value that may be undefined
OrEmptyRoles(roles) == IF Truthy(roles) THEN roles ELSE Arr(<<>>)

\* the refresh branch: verify, sign a new pair, decode the new access token
Rotate(refreshToken) ==
  IF verifyRefreshToken(refreshToken).threw
    THEN [decoded |-> Null, tokens |-> Null]
    ELSE [decoded |->
            verifyAccessToken(
              signAccessToken(verifyRefreshToken(refreshToken).v.sub,
                              OrEmptyRoles(verifyRefreshToken(refreshToken).v.roles))).v,
          tokens |->
            [accessToken |->
               signAccessToken(verifyRefreshToken(refreshToken).v.sub,
                               OrEmptyRoles(verifyRefreshToken(refreshToken).v.roles)),
             refreshToken |->
               signRefreshToken(verifyRefreshToken(refreshToken).v.sub,
                                OrEmptyRoles(verifyRefreshToken(refreshToken).v.roles))]]

\* what the access token decodes to, null when absent or failing
DecodeAccess(accessToken) ==
  IF Truthy(accessToken) /\ ~verifyAccessToken(accessToken).threw
    THEN verifyAccessToken(accessToken).v
    ELSE Null

\* Authenticate with the refresh token rotated whenever one is sent
Authenticate_alwaysRotate(read) ==
  IF Truthy(read.refreshToken)
    THEN Rotate(read.refreshToken)
    ELSE [decoded |-> DecodeAccess(read.accessToken), tokens |-> Null]

\* decoded and tokens after both attempts
Authenticate(read) ==
  IF DecodeAccess(read.accessToken) = Null /\ Truthy(read.refreshToken)
    THEN Rotate(read.refreshToken)
    ELSE [decoded |-> DecodeAccess(read.accessToken), tokens |-> Null]

\* getUserFromRequest(req) against the user collection; dbConnect's error is
\* not caught
getUserFromRequest(req, db) ==
  IF ~db.up THEN Throw("MongoNetworkError")
  ELSE Once(LAMBDA auth :
              IF auth.decoded = Null
                THEN Return([user |-> Null, tokens |-> Null, ctx |-> auth.ctx])
              ELSE IF FindUserById(db.users, auth.decoded.sub) = Null
                THEN Return([user |-> Null, tokens |-> Null, ctx |-> auth.ctx])
              ELSE Return([user |-> FindUserById(db.users, auth.decoded.sub),
                           tokens |-> auth.tokens, ctx |-> auth.ctx]),
            Authenticate(readTokensFromRequest(req))
              @@ [ctx |-> readTokensFromRequest(req).ctx])

----------------------------------------------------------------------------
(* src/lib/rbac.js and requireAuth of src/lib/auth.js.  A handler is       *)
(* [arity, callsNext, result]: its parameter count, whether its body calls  *)
(* its third argument (Express), and what it returns or sends.  A          *)
(* run of a wrapper is summed up as [response, ran, passed]: the response  *)
(* sent or returned, how many times the handler body ran, and whether the  *)
(* outer next was called.                                                  *)

S_admin == <<"a", "d", "m", "i", "n">>
S_user == <<"u", "s", "e", "r">>

\* userHasRole(user, requiredRoles)
userHasRole(user, requiredRoles) ==
  IF user = Null THEN FALSE
  ELSE LET roles == IF "roles" \in DOMAIN user /\ user.roles.t = "array"
                      THEN user.roles.a
                    ELSE IF "role" \in DOMAIN user /\ Truthy(user.role)
                      THEN <<user.role>>
                    ELSE <<>>
       IN \E i \in 1..Len(requiredRoles) : \E j \in 1..Len(roles) :
            requiredRoles[i] = roles[j]

Response(status, error) == [t |-> "Response", status |-> status, error |-> error]

\* what a handler written as documented returns or sends
HandlerResponse == [t |-> "Response", status |-> 200, body |-> "handler"]
NoResponse == [t |-> "none"]

\* expressAuthMiddleware(req, res, next) for next = the role callback:
\* the handler body runs as soon as the user is authenticated; the role is
\* looked at only inside the callback the body may or may not call
expressRoleMiddleware(handler, requiredRoles, req, db) ==
  Once(LAMBDA got :
         IF got.threw
           THEN [response |-> NoResponse, ran |-> 0, passed |-> TRUE]
         ELSE IF got.v.user = Null
           THEN [response |-> Response(401, "Unauthorized"), ran |-> 0,
                 passed |-> FALSE]
         ELSE IF ~handler.callsNext
           THEN [response |-> handler.result, ran |-> 1, passed |-> FALSE]
         ELSE IF ~userHasRole(got.v.user, requiredRoles)
           THEN [response |-> Response(403, "Forbidden"), ran |-> 1,
                 passed |-> FALSE]
         ELSE [response |-> NoResponse, ran |-> 2, passed |-> TRUE],
       getUserFromRequest(req, db))

\* nextAuthHandler(req, ctx): 401 without a user, else the handler's result;
\* 500 when getUserFromRequest throws
nextAuthHandler(handler, req, db) ==
  Once(LAMBDA got :
         IF got.threw
           THEN [response |-> Response(500, "Internal Server Error"), ran |-> 0]
         ELSE IF got.v.user = Null
           THEN [response |-> Response(401, "Unauthorized"), ran |-> 0]
         ELSE [response |-> handler.result, ran |-> 1],
       getUserFromRequest(req, db))

\* x?.user for a ctx or a result
UserOf(x) == IF "user" \in DOMAIN x THEN x.user ELSE Undef

\* result instanceof Response && result.status === 401
IsUnauthorized(result) == result.t = "Response" /\ result.status = 401

\* nextRoleHandler(req, ctx = {}): the user is looked for in the ctx the
\* wrapper was called with and in the handler's result
nextRoleHandler(handler, requiredRoles, req, ctx, db) ==
  Once(LAMBDA authed :
         IF IsUnauthorized(authed.response)
           THEN [response |-> authed.response, ran |-> authed.ran,
                 passed |-> FALSE]
         ELSE IF ~userHasRole(OrElse(OrElse(UserOf(ctx), UserOf(authed.response)),
                                     Null),
                              requiredRoles)
           THEN [response |-> Response(403, "Forbidden"), ran |-> authed.ran,
                 passed |-> FALSE]
         ELSE [response |-> authed.response, ran |-> authed.ran,
               passed |-> FALSE],
       nextAuthHandler(handler, req, db))

\* requireRole(role)(handler) called on a request
requireRole(role, handler, req, ctx, db) ==
  LET requiredRoles == IF role.t = "array" THEN role.a ELSE <<role>>
  IN IF handler.arity >= 3
       THEN expressRoleMiddleware(handler, requiredRoles, req, db)
     ELSE nextRoleHandler(handler, requiredRoles, req, ctx, db)

----------------------------------------------------------------------------
(* src/app/api/pdfs/signed-url/route.js and src/app/api/pdfs/[id]/route.js *)
(* The database is [up, users, pdfs, entitlements]; a response is          *)
(* [status, ...] and carries the signed URL when one was issued.           *)

S_download == <<"d", "o", "w", "n", "l", "o", "a", "d">>
S_upload == <<"u", "p", "l", "o", "a", "d">>

Json(status, error) == [status |-> status, success |-> FALSE, error |-> error]

\* Pdf.findOne({ r2Key }).lean()
FindPdfByKey(pdfs, r2Key) ==
  IF \E id \in DOMAIN pdfs : Str(pdfs[id].r2Key) = r2Key
    THEN pdfs[CHOOSE id \in DOMAIN pdfs : Str(pdfs[id].r2Key) = r2Key]
    ELSE Null

\* the ids mongoose.Types.ObjectId.isValid accepts
ObjectIds == {"p_free", "p_paid", "p_none", "u_admin", "u_user", "u_gone"}
isValidObjectId(id) == id \in ObjectIds

\* the documents { _id: id } or { seoSlug: id } selects
PdfIdsFor(pdfs, id) ==
  IF isValidObjectId(id) THEN {p \in DOMAIN pdfs : p = id}
  ELSE {p \in DOMAIN pdfs : pdfs[p].seoSlug = id}

\* $or: [{ expiresAt: null }, { expiresAt: { $gt: new Date() } }]
NotExpired(e) == e.expiresAt \in {"null", "future"}

\* Entitlement.hasAccess(userId, kind, refId).  A userId of undefined makes
\* the filter { user: undefined, ... }: asNull says whether the driver sends
\* it as null (no entitlement has a null user) or leaves the key out
hasAccess(entitlements, userId, kind, refId, asNull) ==
  \E e \in entitlements :
    /\ IF userId = Undef THEN ~asNull ELSE e.user = userId
    /\ e.kind = kind /\ e.refId = refId /\ e.active /\ NotExpired(e)

\* user._id of what the route calls user: the { user, tokens, ctx } object
\* getUserFromRequest returned, which has no _id
IdOf(x) == IF "_id" \in DOMAIN x THEN x._id ELSE Undef

\* the handler the upload branch wraps: async () => {}
EmptyHandler == [arity |-> 0, callsNext |-> FALSE, result |-> Undef]

\* POST /api/pdfs/signed-url
PostSignedUrl(req, body, db, asNull) ==
  IF body.t # "object" THEN Json(500, "Internal Server Error")
  ELSE IF ~Truthy(Prop(body, "type")) \/ ~Truthy(Prop(body, "r2Key"))
    THEN Json(400, "Missing required fields")
  ELSE IF ~db.up THEN Json(500, "Internal Server Error")
  ELSE
    Once(LAMBDA user :
      IF ~Truthy(user) THEN Json(401, "Unauthorized")
      ELSE IF Prop(body, "type") = Str(S_download)
        THEN Once(LAMBDA pdf :
               IF pdf = Null THEN Json(404, "PDF not found")
               ELSE IF pdf.isPaid
                       /\ ~hasAccess(db.entitlements, IdOf(user), "pdf", pdf._id,
                                     asNull)
                 THEN Json(403, "Access denied. Purchase required.")
               ELSE [status |-> 200, success |-> TRUE, type |-> "download",
                     url |-> [signed |-> "get", r2Key |-> Prop(body, "r2Key")],
                     expiresIn |-> 300],
               FindPdfByKey(db.pdfs, Prop(body, "r2Key")))
      ELSE IF Prop(body, "type") = Str(S_upload)
        THEN Once(LAMBDA ignored :
               [status |-> 200, success |-> TRUE, type |-> "upload",
                url |-> [signed |-> "put", r2Key |-> Prop(body, "r2Key")],
                expiresIn |-> 300],
               requireRole(Str(S_admin), EmptyHandler, req, [t |-> "ctx"], db))
      ELSE Json(400, "Invalid type"),
      [t |-> "auth"] @@ getUserFromRequest(req, db).v)

\* findOne on { _id: id } or { seoSlug: id }: the document or null
FindPdf(pdfs, id) ==
  IF PdfIdsFor(pdfs, id) = {} THEN Null
  ELSE pdfs[CHOOSE p \in PdfIdsFor(pdfs, id) : TRUE]

\* PUT /api/pdfs/[id]: [response, db].  requireRole(user, 'admin') only
\* builds a wrapper: nothing is checked and nothing is thrown
PutPdf(req, id, body, db) ==
  IF ~db.up \/ body.t # "object"
    THEN [response |-> Json(500, "Internal Server Error"), db |-> db]
  ELSE IF FindPdf(db.pdfs, id) = Null
    THEN [response |-> Json(404, "PDF not found"), db |-> db]
  ELSE Once(LAMBDA updated :
              [response |-> [status |-> 200, success |-> TRUE, pdf |-> updated],
               db |-> [db EXCEPT !.pdfs[updated._id] = updated]],
            [FindPdf(db.pdfs, id)
               EXCEPT !.title_en = Prop(body, "title_en"),
                      !.isPaid = Prop(body, "isPaid").b])

\* DELETE /api/pdfs/[id]: [response, db]
DeletePdf(req, id, db) ==
  IF ~db.up THEN [response |-> Json(500, "Internal Server Error"), db |-> db]
  ELSE IF FindPdf(db.pdfs, id) = Null
    THEN [response |-> Json(404, "PDF not found"), db |-> db]
  ELSE [response |-> [status |-> 200, success |-> TRUE, message |-> "PDF deleted"],
        db |-> [db EXCEPT !.pdfs =
                  [p \in DOMAIN db.pdfs \ {FindPdf(db.pdfs, id)._id} |-> db.pdfs[p]]]]

----------------------------------------------------------------------------
(* Requests, users, PDFs and entitlements the auth layer is run on *)

AdminRoles == Arr(<<Str(S_admin)>>)
UserRoles == Arr(<<Str(S_user)>>)

\* the user collection: an admin and a plain user; "u_gone" was deleted
Users ==
  [u \in {"u_admin", "u_user"} |->
     [t |-> "user", _id |-> u,
      roles |-> IF u = "u_admin" THEN AdminRoles ELSE UserRoles]]

S_keyFree == <<"f">>
S_keyPaid == <<"p">>
S_keyNone == <<"x">>
S_title == <<"t">>

Pdfs ==
  [p \in {"p_free", "p_paid"} |->
     [_id |-> p, r2Key |-> IF p = "p_free" THEN S_keyFree ELSE S_keyPaid,
      seoSlug |-> IF p = "p_free" THEN "free-slug" ELSE "paid-slug",
      isPaid |-> p = "p_paid", title_en |-> Str(<<>>)]]

Entitlement(user, kind, refId, active, expiresAt) ==
  [user |-> user, kind |-> kind, refId |-> refId, active |-> active,
   expiresAt |-> expiresAt]

EntitlementSets ==
  {{},
   {Entitlement("u_user", "pdf", "p_paid", TRUE, "null")},
   {Entitlement("u_user", "pdf", "p_paid", TRUE, "future")},
   {Entitlement("u_user", "pdf", "p_paid", TRUE, "past")},
   {Entitlement("u_user", "pdf", "p_paid", FALSE, "null")},
   {Entitlement("u_admin", "pdf", "p_paid", TRUE, "null")},
   {Entitlement("u_user", "course", "p_paid", TRUE, "null")},
   {Entitlement("u_user", "pdf", "p_free", TRUE, "future")}}

Databases ==
  {[up |-> up, users |-> Users, pdfs |-> Pdfs, entitlements |-> es] :
     up \in BOOLEAN, es \in EntitlementSets}

AccessTokens ==
  {Jwt("access", "u_admin", AdminRoles, FALSE),
   Jwt("access", "u_user", UserRoles, FALSE),
   Jwt("access", "u_gone", AdminRoles, FALSE),
   Jwt("access", "u_admin", AdminRoles, TRUE),
   Jwt("refresh", "u_admin", AdminRoles, FALSE)}

Authorizations ==
  {Undef, Header("Basic", Jwt("access", "u_admin", AdminRoles, FALSE))}
    \cup {Header("Bearer", tok) : tok \in AccessTokens}

RefreshTokens ==
  {Null,
   Jwt("refresh", "u_admin", AdminRoles, FALSE),
   Jwt("refresh", "u_user", Undef, FALSE),
   Jwt("refresh", "u_gone", AdminRoles, FALSE),
   Jwt("refresh", "u_user", UserRoles, TRUE),
   Jwt("other", "u_admin", AdminRoles, FALSE),
   Jwt("access", "u_admin", AdminRoles, FALSE)}

Request(kind, authorization, refreshToken) ==
  [kind |-> kind, authorization |-> authorization, refreshToken |-> refreshToken]

\* a raw object without headers carries no token
Requests ==
  {Request(kind, a, r) :
     kind \in {"next", "express"}, a \in Authorizations, r \in RefreshTokens}
    \cup {Request("other", Undef, Null)}

NextRequests == {req \in Requests : req.kind = "next"}

Handlers ==
  {[arity |-> 3, callsNext |-> TRUE, result |-> NoResponse],
   [arity |-> 3, callsNext |-> FALSE, result |-> HandlerResponse],
   [arity |-> 2, callsNext |-> FALSE, result |-> HandlerResponse],
   [arity |-> 1, callsNext |-> FALSE, result |-> HandlerResponse]}

RoleArguments == {Str(S_admin), Arr(<<Str(S_admin), Str(S_user)>>)}

\* the second argument Next.js calls a route handler with, and the one a
\* caller that already holds the user may pass
Contexts ==
  {[t |-> "ctx"], [t |-> "ctx", params |-> "p_free"],
   [t |-> "ctx", user |-> Users["u_admin"]]}

SignedUrlBodies ==
  {Undef, Obj(EmptyObj)}
    \cup {Obj([k \in {"type", "r2Key"} |-> IF k = "type" THEN type ELSE Str(key)]) :
            type \in {Str(S_download), Str(S_upload), Str(S_title)},
            key \in {S_keyFree, S_keyPaid, S_keyNone}}
    \cup {Obj([k \in {"type"} |-> Str(S_upload)])}

UpdateBodies ==
  {Undef,
   Obj([k \in {"title_en", "isPaid"} |->
          IF k = "title_en" THEN Str(S_title) ELSE Bool(FALSE)])}

PdfParams == {"p_free", "p_paid", "p_none", "paid-slug", "no-slug"}

AuthCalls ==
  {[op |-> "getUserFromRequest", req |-> req] : req \in Requests}
    \cup {[op |-> "requireRole", req |-> req, role |-> role, handler |-> h,
           ctx |-> ctx] :
            req \in Requests, role \in RoleArguments, h \in Handlers,
            ctx \in Contexts}
    \cup {[op |-> "POST", req |-> req, body |-> body] :
            req \in NextRequests, body \in SignedUrlBodies}
    \cup {[op |-> "PUT", req |-> req, id |-> id, body |-> body] :
            req \in NextRequests, id \in PdfParams, body \in UpdateBodies}
    \cup {[op |-> "DELETE", req |-> req, id |-> id] :
            req \in NextRequests, id \in PdfParams}

----------------------------------------------------------------------------
(* The auth layer as a state machine: arg is the call, store the database, *)
(* out the call's outcome.                                                 *)

CallGetUserFromRequest ==
  /\ out = NoCall /\ arg.op = "getUserFromRequest"
  /\ out' = [op |-> arg.op, r |-> getUserFromRequest(arg.req, store)]
  /\ UNCHANGED <<arg, store, node>>

CallWrappedHandler ==
  /\ out = NoCall /\ arg.op = "requireRole"
  /\ out' = [op |-> arg.op,
             r |-> requireRole(arg.role, arg.handler, arg.req, arg.ctx, store)]
  /\ UNCHANGED <<arg, store, node>>

POST ==
  /\ out = NoCall /\ arg.op = "POST"
  /\ \E asNull \in BOOLEAN :
       out' = [op |-> arg.op,
               response |-> PostSignedUrl(arg.req, arg.body, store, asNull)]
  /\ UNCHANGED <<arg, store, node>>

PUT ==
  /\ out = NoCall /\ arg.op = "PUT"
  /\ \E done \in {PutPdf(arg.req, arg.id, arg.body, store)} :
       /\ out' = [op |-> arg.op, response |-> done.response]
       /\ store' = done.db
  /\ UNCHANGED <<arg, node>>

DELETE ==
  /\ out = NoCall /\ arg.op = "DELETE"
  /\ \E done \in {DeletePdf(arg.req, arg.id, store)} :
       /\ out' = [op |-> arg.op, response |-> done.response]
       /\ store' = done.db
  /\ UNCHANGED <<arg, node>>

InitAuth ==
  arg \in AuthCalls /\ store \in Databases /\ out = NoCall /\ node = NodeIdle

NextAuth == CallGetUserFromRequest \/ CallWrappedHandler \/ POST \/ PUT \/ DELETE

SpecAuth == InitAuth /\ [][NextAuth]_vars

----------------------------------------------------------------------------
(* Who a request comes from, said without the code under test *)

\* a token the server signed with the named secret and that has not expired
Verifies(token, key) == token.t = "jwt" /\ token.key = key /\ ~token.expired

\* the credentials of an "Authorization: Bearer <token>" header, else null
BearerOf(req) ==
  IF req.authorization.t = "header" /\ req.authorization.scheme = "Bearer"
    THEN req.authorization.token
    ELSE Null

AccessVerifies(req) == Verifies(BearerOf(req), "access")
RefreshVerifies(req) == Verifies(req.refreshToken, "refresh")

\* the user the request's credentials stand for: the subject of the access
\* token when it verifies, else of the refresh token when that verifies,
\* provided the subject is in the user collection; null otherwise
Requester(req, db) ==
  IF AccessVerifies(req)
    THEN FindUserById(db.users, BearerOf(req).sub)
  ELSE IF RefreshVerifies(req)
    THEN FindUserById(db.users, req.refreshToken.sub)
  ELSE Null

\* the user holds at least one of the roles requireRole was given
HoldsOneOf(user, role) ==
  /\ user # Null
  /\ \E i \in 1..Len(user.roles.a) :
       user.roles.a[i] \in (IF role.t = "array"
                              THEN {role.a[j] : j \in 1..Len(role.a)}
                              ELSE {role})

IsAdmin(user) == HoldsOneOf(user, Str(S_admin))

\* C14: a handler wrapped by requireRole(roles), Express-style or
\* Next.js-style, never runs for a request whose user is unauthenticated or
\* holds none of the required roles: the request is answered 401 or 403 and
\* the handler body has not been executed.
C14_HandlerNeverRunsWithoutRole ==
  (out.op = "requireRole" /\ store.up
     /\ ~HoldsOneOf(Requester(arg.req, store), arg.role)) =>
    /\ out.r.ran = 0
    /\ out.r.response.t = "Response"
    /\ out.r.response.status \in {401, 403}

\* the part of C14 the wrappers keep: without an authenticated user the
\* handler does not run and the answer is 401
C14_UnauthenticatedIsRefused ==
  (out.op = "requireRole" /\ store.up /\ Requester(arg.req, store) = Null) =>
    /\ out.r.ran = 0
    /\ out.r.response = Response(401, "Unauthorized")

\* C15: a Next.js-style handler wrapped as documented answers a request with
\* valid credentials of an existing user holding one of the required roles
\* with the handler's own response, not with 403 Forbidden.
C15_RoleHolderGetsHandlerResponse ==
  (out.op = "requireRole" /\ store.up
     /\ arg.handler.arity < 3 /\ "user" \notin DOMAIN arg.ctx
     /\ HoldsOneOf(Requester(arg.req, store), arg.role)) =>
    out.r.response = arg.handler.result

\* a signed URL of the given kind ("get" or "put") is in the response
Issued(response, signed) ==
  "url" \in DOMAIN response /\ response.url.signed = signed

\* C16: POST /api/pdfs/signed-url answers 401 and issues no signed URL,
\* download or upload, when the request carries neither a verifying access
\* token nor a verifying refresh token or its token's subject is not an
\* existing user.
C16_SignedUrlNeedsAuthentication ==
  (out.op = "POST" /\ store.up /\ Requester(arg.req, store) = Null
     /\ Prop(arg.body, "type") \in {Str(S_download), Str(S_upload)}
     /\ Truthy(Prop(arg.body, "r2Key"))) =>
    /\ out.response.status = 401
    /\ "url" \notin DOMAIN out.response

\* C17: the admin-only operations take effect only for an authenticated
\* admin: for every other requester POST returns no upload URL and PUT and
\* DELETE leave the PDF collection as it was.
C17_AdminOnlyOperations ==
  (out.op \in {"POST", "PUT", "DELETE"}
     /\ ~IsAdmin(Requester(arg.req, store))) =>
    /\ ~Issued(out.response, "put")
    /\ store.pdfs = Pdfs

\* the user has an entitlement of kind 'pdf' for the PDF that is active and
\* whose expiresAt is null or in the future
Entitled(user, pdfId, entitlements) ==
  /\ user # Null
  /\ \E e \in entitlements :
       /\ e.user = user._id /\ e.kind = "pdf" /\ e.refId = pdfId
       /\ e.active /\ e.expiresAt \in {"null", "future"}

\* a download request for a stored PDF whose isPaid is true was answered
PaidDownload ==
  /\ out.op = "POST" /\ store.up
  /\ Prop(arg.body, "type") = Str(S_download)
  /\ FindPdfByKey(store.pdfs, Prop(arg.body, "r2Key")) # Null
  /\ FindPdfByKey(store.pdfs, Prop(arg.body, "r2Key")).isPaid

\* C18: for a paid PDF, a download URL is issued exactly to requesters with
\* an active, unexpired 'pdf' entitlement for it: without one the answer is
\* a refusal (403, or 401 for nobody) and no URL, with one it is the URL.
C18_PaidDownloadNeedsEntitlement ==
  PaidDownload =>
    IF Entitled(Requester(arg.req, store),
                FindPdfByKey(store.pdfs, Prop(arg.body, "r2Key"))._id,
                store.entitlements)
      THEN Issued(out.response, "get")
      ELSE out.response.status \in {401, 403} /\ "url" \notin DOMAIN out.response

\* the pair getUserFromRequest signs for a refresh token's subject and roles
RotatedPair(refreshToken) ==
  [accessToken |->
     Jwt("access", refreshToken.sub,
         IF refreshToken.roles = Undef THEN Arr(<<>>) ELSE refreshToken.roles,
         FALSE),
   refreshToken |->
     Jwt("refresh", refreshToken.sub,
         IF refreshToken.roles = Undef THEN Arr(<<>>) ELSE refreshToken.roles,
         FALSE)]

\* C19: getUserFromRequest returns a user only when the access token or the
\* refresh token verifies and the token's subject is in the user store (the
\* user returned is that subject); it returns tokens, the newly signed pair
\* for the refresh token's subject and roles, only when the access token is
\* absent or fails and the refresh token verifies; when no verifying token
\* names an existing user, user and tokens are both null.
C19_UserAndTokensOnlyForVerifiedCredentials ==
  (out.op = "getUserFromRequest" /\ Returned(out)) =>
    /\ out.r.v.user # Null =>
         /\ AccessVerifies(arg.req) \/ RefreshVerifies(arg.req)
         /\ out.r.v.user = Requester(arg.req, store)
    /\ out.r.v.tokens # Null =>
         /\ ~AccessVerifies(arg.req) /\ RefreshVerifies(arg.req)
         /\ out.r.v.tokens = RotatedPair(arg.req.refreshToken)
    /\ Requester(arg.req, store) = Null =>
         out.r.v.user = Null /\ out.r.v.tokens = Null

\* an expired access token with a verifying refresh token of an existing
\* user: the user comes back with a rotated pair
C19_Witness ==
  /\ out.op = "getUserFromRequest" /\ Returned(out)
  /\ BearerOf(arg.req) # Null /\ ~AccessVerifies(arg.req)
  /\ out.r.v.user # Null /\ out.r.v.tokens # Null

----------------------------------------------------------------------------
(* src/lib/dbConnect.js (and its earlier form lib/dbConnect.js, which makes *)
(* one attempt per sequence).  node is                                     *)
(*   cached    the module-level cache { conn, promise }: 0 stands for null, *)
(*             a connection or a promise is named by the number of the      *)
(*             attempt sequence it belongs to;                              *)
(*   promises  the sequences started so far, each [status, attempt,        *)
(*             waiters]: waiters are the callers awaiting it, in the order  *)
(*             they began to await;                                         *)
(*   jobs      the microtask queue, first in first out: a job resumes a     *)
(*             caller after its await or continues a caller that calls      *)
(*             dbConnect again;                                             *)
(*   callers   for each caller [pc, awaits, result, calls, retrying].       *)
(* A request arrives and a connection attempt settles in a task of their    *)
(* own, which the event loop starts only when the microtask queue is empty. *)

MaxCallers == 3
MaxSequences == 3
MaxCalls == 2

\* parseInt(process.env.MONGO_CONNECT_RETRIES || '3', 10)
Retries == 3

ResumeJob(c) == [kind |-> "resume", caller |-> c]
CallJob(c) == [kind |-> "call", caller |-> c]

\* the caller's own continuation after dbConnect returned or threw: a route
\* goes on to getUserFromRequest, which calls dbConnect again; a caller that
\* retries calls again after a failure
Finish(c, s, ok, conn) ==
  [s EXCEPT !.callers[c].pc = IF ok THEN "returned" ELSE "threw",
            !.callers[c].result = conn,
            !.jobs = IF s.callers[c].calls < MaxCalls
                        /\ (ok \/ s.callers[c].retrying)
                       THEN Append(@, CallJob(c)) ELSE @]

\* cached.promise = connectWithRetry(...).then(...)
StartSequence(s) ==
  [s EXCEPT !.promises = Append(@, [status |-> "pending", attempt |-> 1,
                                    waiters |-> <<>>]),
            !.cached.promise = Len(s.promises) + 1]

\* await cached.promise: the caller's resumption is queued at once when the
\* promise is already settled
Await(c, s) ==
  [s EXCEPT !.callers[c].pc = "awaiting",
            !.callers[c].awaits = s.cached.promise,
            !.promises[s.cached.promise].waiters = Append(@, c),
            !.jobs = IF s.promises[s.cached.promise].status = "pending"
                       THEN @ ELSE Append(@, ResumeJob(c))]

\* dbConnect without the test of cached.promise
dbConnect_alwaysStart(c, s) ==
  IF s.cached.conn # 0 THEN Finish(c, s, TRUE, s.cached.conn)
  ELSE Await(c, StartSequence(s))

\* dbConnect() up to its await
dbConnect(c, s) ==
  IF s.cached.conn # 0 THEN Finish(c, s, TRUE, s.cached.conn)
  ELSE IF s.cached.promise = 0 THEN Await(c, StartSequence(s))
  ELSE Await(c, s)

\* dbConnect() from its await on: cached.conn = await cached.promise, or the
\* catch block
Resume(c, s) ==
  IF s.promises[s.callers[c].awaits].status = "fulfilled"
    THEN Finish(c, [s EXCEPT !.cached.conn = s.callers[c].awaits], TRUE,
                s.callers[c].awaits)
    ELSE Finish(c, [s EXCEPT !.cached.promise = 0], FALSE, 0)

\* a settled promise queues the resumption of its waiters in order
Settle(p, status, s) ==
  [s EXCEPT !.promises[p].status = status,
            !.jobs = @ \o [i \in 1..Len(s.promises[p].waiters) |->
                             ResumeJob(s.promises[p].waiters[i])]]

\* a call would neither outgrow the sequences followed here
CanCall(s) ==
  s.cached.conn # 0 \/ s.cached.promise # 0 \/ Len(s.promises) < MaxSequences

Called(c, s) ==
  dbConnect(c, [s EXCEPT !.callers[c].calls = @ + 1])

\* a request arrives and calls dbConnect
Arrive ==
  /\ node.jobs = <<>> /\ CanCall(node)
  /\ \E c \in DOMAIN node.callers :
       /\ node.callers[c].pc = "idle"
       /\ node' = Called(c, node)
  /\ UNCHANGED <<arg, out, store>>

\* mongoose.connect resolves
AttemptSucceeds ==
  /\ node.jobs = <<>>
  /\ \E p \in DOMAIN node.promises :
       /\ node.promises[p].status = "pending"
       /\ node' = Settle(p, "fulfilled", node)
  /\ UNCHANGED <<arg, out, store>>

\* mongoose.connect rejects: connectWithRetry tries again until its last
\* attempt, then throws
AttemptFails ==
  /\ node.jobs = <<>>
  /\ \E p \in DOMAIN node.promises :
       /\ node.promises[p].status = "pending"
       /\ node' = IF node.promises[p].attempt < arg.retries
                    THEN [node EXCEPT !.promises[p].attempt = @ + 1]
                    ELSE Settle(p, "rejected", node)
  /\ UNCHANGED <<arg, out, store>>

\* the event loop runs the first microtask
RunJob ==
  /\ node.jobs # <<>>
  /\ \E s \in {[node EXCEPT !.jobs = Tail(@)]} :
       \E job \in {Head(node.jobs)} :
         node' = IF job.kind = "resume" THEN Resume(job.caller, s)
                 ELSE IF CanCall(s) THEN Called(job.caller, s)
                 ELSE s
  /\ UNCHANGED <<arg, out, store>>

InitDb ==
  /\ arg \in {[op |-> "dbConnect", retries |-> r] : r \in {1, Retries}}
  /\ out = NoCall /\ store = NoStore
  /\ \E retrying \in [1..MaxCallers -> BOOLEAN] :
       node = [NodeIdle EXCEPT
                 !.callers = [c \in 1..MaxCallers |->
                                [pc |-> "idle", awaits |-> 0, result |-> 0,
                                 calls |-> 0, retrying |-> retrying[c]]]]

NextDb == Arrive \/ AttemptSucceeds \/ AttemptFails \/ RunJob

SpecDb == InitDb /\ [][NextDb]_vars

\* the attempt sequences in flight
InFlight == {p \in DOMAIN node.promises : node.promises[p].status = "pending"}

\* C20: over every interleaving of dbConnect callers at most one attempt
\* sequence is in flight, and it is the stored promise, so that callers
\* arriving meanwhile await that same sequence; once a connection is
\* established no further sequence is started and every call returns that
\* connection; and a failed sequence does not stay stored: when the event
\* loop takes the next request the stored promise is never a rejected one.
C20_OneSequenceInFlightAndCachedConnection ==
  /\ Cardinality(InFlight) <= 1
  /\ \A p \in InFlight : node.cached.promise = p
  /\ \A c \in DOMAIN node.callers :
       (node.callers[c].pc = "awaiting"
          /\ node.promises[node.callers[c].awaits].status = "pending")
         => node.callers[c].awaits = node.cached.promise
  /\ node.cached.conn # 0 =>
       /\ InFlight = {}
       /\ node.cached.conn = Len(node.promises)
       /\ \A c \in DOMAIN node.callers :
            node.callers[c].pc = "returned"
              => node.callers[c].result = node.cached.conn
  /\ (node.jobs = <<>> /\ node.cached.promise # 0) =>
       node.promises[node.cached.promise].status # "rejected"

\* a first sequence failed under two waiting callers, a later call started a
\* second one that two callers awaited, and a caller's second call returned
\* the connection it established
C20_Witness ==
  /\ Len(node.promises) = 2
  /\ node.promises[1].status = "rejected" /\ Len(node.promises[1].waiters) >= 2
  /\ Len(node.promises[2].waiters) >= 2
  /\ node.cached.conn = 2
  /\ \E c \in DOMAIN node.callers :
       /\ node.callers[c].calls = 2 /\ node.callers[c].pc = "returned"
       /\ node.callers[c].result = 2

----------------------------------------------------------------------------
(* connectWithRetry of src/lib/dbConnect.js, step by step.  arg is the     *)
(* call [retries, initialDelayMs] with retries as parseInt made it of       *)
(* MONGO_CONNECT_RETRIES (a number or NaN); node is the activation:         *)
(* [pc, i, lastErr, attempts, waits, outcome], attempts counting the calls  *)
(* of mongoose.connect and waits listing the backoff delays slept.          *)

MaxRetries == 4

\* i < retries, false for NaN
LessThan(i, n) == n.t = "number" /\ i < n.n

\* Math.pow(2, i)
RECURSIVE Pow2(_)
Pow2(i) == IF i = 0 THEN 1 ELSE 2 * Pow2(i - 1)

\* the error mongoose.connect rejects with on attempt i
ConnectError(i) == [t |-> "Error", attempt |-> i]

MongooseInstance == [t |-> "mongoose"]

\* let lastErr = null; i = 0
RetryStart ==
  [pc |-> "loop", i |-> 0, lastErr |-> Null, attempts |-> 0, waits |-> <<>>,
   outcome |-> Null]

\* the loop test: another mongoose.connect, or throw lastErr
RetryLoop ==
  /\ arg.op = "connectWithRetry" /\ node.pc = "loop"
  /\ node' = IF LessThan(node.i, arg.retries)
               THEN [node EXCEPT !.pc = "connecting", !.attempts = @ + 1]
               ELSE [node EXCEPT !.pc = "done", !.outcome = Throw(node.lastErr)]
  /\ UNCHANGED <<arg, out, store>>

\* return mongooseInstance
ConnectResolves ==
  /\ arg.op = "connectWithRetry" /\ node.pc = "connecting"
  /\ node' = [node EXCEPT !.pc = "done", !.outcome = Return(MongooseInstance)]
  /\ UNCHANGED <<arg, out, store>>

\* the catch block: remember the error, sleep unless this was the last
\* attempt (i < retries - 1)
ConnectRejects ==
  /\ arg.op = "connectWithRetry" /\ node.pc = "connecting"
  /\ node' = IF LessThan(node.i + 1, arg.retries)
               THEN [node EXCEPT !.pc = "waiting",
                                 !.lastErr = ConnectError(node.i),
                                 !.waits = Append(@, arg.initialDelayMs * Pow2(node.i))]
               ELSE [node EXCEPT !.pc = "loop", !.i = @ + 1,
                                 !.lastErr = ConnectError(node.i)]
  /\ UNCHANGED <<arg, out, store>>

\* the backoff timer fires
BackoffElapses ==
  /\ arg.op = "connectWithRetry" /\ node.pc = "waiting"
  /\ node' = [node EXCEPT !.pc = "loop", !.i = @ + 1]
  /\ UNCHANGED <<arg, out, store>>

\* what parseInt(process.env.MONGO_CONNECT_RETRIES || '3', 10) can be
RetryCounts == {NaN} \cup {Num(n) : n \in -1..MaxRetries}

InitRetry ==
  /\ arg \in {[op |-> "connectWithRetry", retries |-> r, initialDelayMs |-> d] :
                r \in RetryCounts, d \in {1000, 500, 250}}
  /\ out = NoCall /\ store = NoStore /\ node = RetryStart

NextRetry == RetryLoop \/ ConnectResolves \/ ConnectRejects \/ BackoffElapses

SpecRetry == InitRetry /\ [][NextRetry]_vars

\* the attempts connectWithRetry may make at most
AttemptLimit == IF LessThan(0, arg.retries) THEN arg.retries.n ELSE 0

\* C21: connectWithRetry makes at most `retries` attempts, returns on the
\* first that succeeds, sleeps initialDelayMs * 2^i after failed attempt i
\* except after the last one, and when every attempt failed throws the
\* error of the last attempt, an error object whatever retries is
\* configured to.
C21_RetryAttemptsBackoffAndError ==
  arg.op = "connectWithRetry" =>
    /\ node.attempts <= AttemptLimit
    /\ \A k \in 1..Len(node.waits) :
         /\ k < AttemptLimit
         /\ node.waits[k] = arg.initialDelayMs * Pow2(k - 1)
    /\ (node.pc = "done" /\ ~node.outcome.threw) =>
         /\ node.outcome.v = MongooseInstance
         /\ Len(node.waits) = node.attempts - 1
    /\ (node.pc = "done" /\ node.outcome.threw) =>
         /\ node.attempts = AttemptLimit
         /\ Len(node.waits) = node.attempts - 1
         /\ node.outcome.e.t = "Error"
         /\ node.outcome.e = ConnectError(node.attempts - 1)

\* the part of C21 the code keeps: the same with the error left aside when
\* no attempt is made
C21_HoldsWhenAnAttemptIsMade ==
  (arg.op = "connectWithRetry" /\ AttemptLimit >= 1) =>
    C21_RetryAttemptsBackoffAndError

----------------------------------------------------------------------------
(* middleware.js: the per-IP rate limit.  arg is the configuration          *)
(* [WINDOW, MAX_REQUESTS] read from the environment; node is                *)
(*   now             Date.now(), in milliseconds;                           *)
(*   rateLimitStore  the Map from IP to the timestamps kept for it;         *)
(*   passed          for each IP the times, within the last WINDOW          *)
(*                   milliseconds, at which a request to a non-public path   *)
(*                   was let through;                                       *)
(*   last            for each IP the answer its latest such request got.    *)
(* out is the answer to the latest request, with the answer that preceded   *)
(* it for the same IP.                                                      *)

MaxTime == 5
MaxRequests == 2

\* the clock advances in steps of half a second
TickMs == 500

PUBLIC_PATHS == {<<"/">>, <<"/", "f", "a", "v", "i", "c", "o", "n", ".", "i", "c", "o">>, <<"/", "r", "o", "b", "o", "t", "s", ".", "t", "x", "t">>, <<"/", "s", "i", "t", "e", "m", "a", "p", ".", "x", "m", "l">>}
PUBLIC_PREFIXES == <<<<"/", "_", "n", "e", "x", "t">>, <<"/", "p", "u", "b", "l", "i", "c">>, <<"/", "a", "p", "i", "/", "a", "u", "t", "h">>>>

\* pathname.startsWith(prefix)
StartsWith(s, prefix) ==
  Len(prefix) <= Len(s) /\ SubSeq(s, 1, Len(prefix)) = prefix

isPublicPath(pathname) ==
  \/ pathname \in PUBLIC_PATHS
  \/ \E i \in 1..Len(PUBLIC_PREFIXES) : StartsWith(pathname, PUBLIC_PREFIXES[i])

\* rateLimitStore.get(ip), after the has/set that makes it exist
TimestampsOf(rateLimitStore, ip) ==
  IF ip \in DOMAIN rateLimitStore THEN rateLimitStore[ip] ELSE <<>>

\* .filter(ts => ts > windowStart)
Recent(timestamps, windowStart) ==
  SelectSeq(timestamps, LAMBDA ts : ts > windowStart)

\* rateLimit with the limit reached only above MAX_REQUESTS
rateLimit_oneMore(ip, now, rateLimitStore, config) ==
  IF ip = "" THEN [allowed |-> TRUE, rateLimitStore |-> rateLimitStore]
  ELSE
    Once(LAMBDA timestamps :
           IF Len(timestamps) > config.MAX_REQUESTS
             THEN [allowed |-> FALSE,
                   retryAfter |-> Ceil(timestamps[1] + config.WINDOW - now, 1000),
                   rateLimitStore |->
                     (ip :> TimestampsOf(rateLimitStore, ip)) @@ rateLimitStore]
             ELSE [allowed |-> TRUE,
                   rateLimitStore |-> (ip :> Append(timestamps, now)) @@ rateLimitStore],
         Recent(TimestampsOf(rateLimitStore, ip), now - config.WINDOW))

\* rateLimit(ip) at Date.now() = now: [allowed, retryAfter, rateLimitStore]
rateLimit(ip, now, rateLimitStore, config) ==
  IF ip = "" THEN [allowed |-> TRUE, rateLimitStore |-> rateLimitStore]
  ELSE
    Once(LAMBDA timestamps :
           IF Len(timestamps) >= config.MAX_REQUESTS
             THEN [allowed |-> FALSE,
                   retryAfter |-> Ceil(timestamps[1] + config.WINDOW - now, 1000),
                   rateLimitStore |->
                     (ip :> TimestampsOf(rateLimitStore, ip)) @@ rateLimitStore]
             ELSE [allowed |-> TRUE,
                   rateLimitStore |-> (ip :> Append(timestamps, now)) @@ rateLimitStore],
         Recent(TimestampsOf(rateLimitStore, ip), now - config.WINDOW))

\* req.ip || req.headers.get('x-forwarded-for')?.split(',')[0] || 'unknown';
\* a request is [ip, forwarded, pathname], forwarded being the header split
\* at its commas, empty when the header is absent
ClientIp(req) ==
  IF req.ip # "" THEN req.ip
  ELSE IF req.forwarded # <<>> /\ req.forwarded[1] # "" THEN req.forwarded[1]
  ELSE "unknown"

\* middleware(req): [status, retryAfter, rateLimitStore]
middleware(req, now, rateLimitStore, config) ==
  IF isPublicPath(req.pathname)
    THEN [status |-> 200, retryAfter |-> 0, rateLimitStore |-> rateLimitStore]
  ELSE Once(LAMBDA rl :
              IF ~rl.allowed
                THEN [status |-> 429, retryAfter |-> rl.retryAfter,
                      rateLimitStore |-> rl.rateLimitStore]
                ELSE [status |-> 200, retryAfter |-> 0,
                      rateLimitStore |-> rl.rateLimitStore],
            rateLimit(ClientIp(req), now, rateLimitStore, config))

S_apiPdfs == <<"/", "a", "p", "i", "/", "p", "d", "f", "s">>
S_apiAuthMe == <<"/", "a", "p", "i", "/", "a", "u", "t", "h", "/", "m", "e">>

MiddlewareRequest(ip, forwarded, pathname) ==
  [ip |-> ip, forwarded |-> forwarded, pathname |-> pathname]

MiddlewareRequests ==
  {MiddlewareRequest("1.1.1.1", <<>>, S_apiPdfs),
   MiddlewareRequest("", <<"1.1.1.1", "9.9.9.9">>, S_apiPdfs),
   MiddlewareRequest("", <<"">>, S_apiPdfs),
   MiddlewareRequest("", <<>>, S_apiPdfs),
   MiddlewareRequest("", <<>>, <<"/">>),
   MiddlewareRequest("1.1.1.1", <<>>, S_apiAuthMe)}

ClientIps == {ClientIp(req) : req \in MiddlewareRequests}

NoAnswer == [status |-> 0, retryAfter |-> 0, at |-> 0]

\* a request reaches the middleware
HandleRequest ==
  /\ arg.op = "middleware"
  /\ \E req \in MiddlewareRequests :
       \E res \in {middleware(req, node.now, node.rateLimitStore, arg)} :
         \E answer \in {[status |-> res.status, retryAfter |-> res.retryAfter,
                         at |-> node.now]} :
           /\ out' = [op |-> "middleware", ip |-> ClientIp(req),
                      public |-> isPublicPath(req.pathname),
                      prev |-> node.last[ClientIp(req)]] @@ answer
           /\ node' = [node EXCEPT
                         !.rateLimitStore = res.rateLimitStore,
                         !.passed[ClientIp(req)] =
                           IF ~isPublicPath(req.pathname) /\ res.status = 200
                             THEN Append(@, node.now) ELSE @,
                         !.last[ClientIp(req)] =
                           IF isPublicPath(req.pathname) THEN @ ELSE answer]
  /\ UNCHANGED <<arg, store>>

\* time passes; the passages that have left the window are forgotten
ClockAdvances ==
  /\ arg.op = "middleware"
  /\ node.now + TickMs <= MaxTime * TickMs
  /\ node' = [node EXCEPT
                !.now = @ + TickMs,
                !.passed = [ip \in DOMAIN @ |->
                              Recent(@[ip], node.now + TickMs - arg.WINDOW)]]
  /\ UNCHANGED <<arg, out, store>>

InitMiddleware ==
  /\ arg \in {[op |-> "middleware", WINDOW |-> w, MAX_REQUESTS |-> m] :
                w \in {2 * TickMs, 3 * TickMs}, m \in 1..MaxRequests}
  /\ out = NoCall /\ store = NoStore
  /\ node = [now |-> 0, rateLimitStore |-> <<>>,
             passed |-> [ip \in ClientIps |-> <<>>],
             last |-> [ip \in ClientIps |-> NoAnswer]]

NextMiddleware == HandleRequest \/ ClockAdvances

SpecMiddleware == InitMiddleware /\ [][NextMiddleware]_vars

\* the requests of an IP let through to non-public paths in the WINDOW
\* milliseconds up to the instant t
LetThrough(ip, t) ==
  {k \in 1..Len(node.passed[ip]) :
     node.passed[ip][k] > t - arg.WINDOW /\ node.passed[ip][k] <= t}

----------------------------------------------------------------------------
(* src/redux/api/baseApi.js: baseQueryWithReauth.  node is                  *)
(*   locked   whether the mutex is held;                                    *)
(*   epoch    how many times it has been acquired;                          *)
(*   queries  for each call of baseQueryWithReauth [pc, sends, saw]: where  *)
(*            it stands, how often its own request was sent, and the epoch  *)
(*            of the lock it found held when it was answered 401.           *)
(* A call runs from one await to the next without interruption; the server  *)
(* answers each request with 401 or not, in any order.                      *)

MaxQueries == 3

\* mutex.waitForUnlock(): resolved at once when the mutex is free
WaitForUnlock(q, s, waiting, woken) ==
  [s EXCEPT !.queries[q].pc = IF s.locked THEN waiting ELSE woken]

\* release(): the mutex is free and everyone waiting for that is woken
Release(s) ==
  [s EXCEPT !.locked = FALSE,
            !.queries = [q \in DOMAIN @ |->
                           IF @[q].pc = "waitFirst" THEN [@[q] EXCEPT !.pc = "toSend"]
                           ELSE IF @[q].pc = "waitRefresh"
                             THEN [@[q] EXCEPT !.pc = "toResend"]
                           ELSE @[q]]]

\* baseQuery(args, api, extraOptions) is called for the query's own request
SendOwn(q, s, pc) ==
  [s EXCEPT !.queries[q].pc = pc, !.queries[q].sends = @ + 1]

\* the 401 branch with the refresh started whether or not the mutex is held
Unauthorized_noMutex(q, s) ==
  [s EXCEPT !.locked = TRUE, !.epoch = @ + 1, !.queries[q].pc = "acquired"]

\* the 401 branch: acquire the mutex when it is free, else wait for it
Unauthorized(q, s) ==
  IF ~s.locked
    THEN [s EXCEPT !.locked = TRUE, !.epoch = @ + 1, !.queries[q].pc = "acquired"]
    ELSE WaitForUnlock(q, [s EXCEPT !.queries[q].saw = s.epoch], "waitRefresh",
                       "toResend")

Finished(q, s) == [s EXCEPT !.queries[q].pc = "done"]

\* baseQueryWithReauth is called: await mutex.waitForUnlock()
CallQuery ==
  /\ arg.op = "baseQueryWithReauth"
  /\ \E q \in DOMAIN node.queries :
       /\ node.queries[q].pc = "new"
       /\ node' = WaitForUnlock(q, node, "waitFirst", "toSend")
  /\ UNCHANGED <<arg, out, store>>

\* let result = await baseQuery(args, api, extraOptions)
SendOriginal ==
  /\ arg.op = "baseQueryWithReauth"
  /\ \E q \in DOMAIN node.queries :
       /\ node.queries[q].pc = "toSend"
       /\ node' = SendOwn(q, node, "inFlight")
  /\ UNCHANGED <<arg, out, store>>

\* the original request is answered
OriginalAnswered ==
  /\ arg.op = "baseQueryWithReauth"
  /\ \E q \in DOMAIN node.queries : \E status \in {200, 401} :
       /\ node.queries[q].pc = "inFlight"
       /\ node' = IF status = 401 THEN Unauthorized(q, node) ELSE Finished(q, node)
  /\ UNCHANGED <<arg, out, store>>

\* the holder of the mutex posts /auth/refresh
SendRefresh ==
  /\ arg.op = "baseQueryWithReauth"
  /\ \E q \in DOMAIN node.queries :
       /\ node.queries[q].pc = "acquired"
       /\ node' = [node EXCEPT !.queries[q].pc = "refreshing"]
  /\ UNCHANGED <<arg, out, store>>

\* the refresh is answered: with data the original query is retried, without
\* the user is logged out and the mutex released
RefreshAnswered ==
  /\ arg.op = "baseQueryWithReauth"
  /\ \E q \in DOMAIN node.queries : \E data \in BOOLEAN :
       /\ node.queries[q].pc = "refreshing"
       /\ node' = IF data THEN SendOwn(q, node, "retrying")
                  ELSE Finished(q, Release(node))
  /\ UNCHANGED <<arg, out, store>>

\* the holder's retry is answered: finally release()
RetryAnswered ==
  /\ arg.op = "baseQueryWithReauth"
  /\ \E q \in DOMAIN node.queries :
       /\ node.queries[q].pc = "retrying"
       /\ node' = Finished(q, Release(node))
  /\ UNCHANGED <<arg, out, store>>

\* a query that waited for the refresh sends its request again
Resend ==
  /\ arg.op = "baseQueryWithReauth"
  /\ \E q \in DOMAIN node.queries :
       /\ node.queries[q].pc = "toResend"
       /\ node' = SendOwn(q, node, "resent")
  /\ UNCHANGED <<arg, out, store>>

\* its answer is returned whatever it is
ResendAnswered ==
  /\ arg.op = "baseQueryWithReauth"
  /\ \E q \in DOMAIN node.queries :
       /\ node.queries[q].pc = "resent"
       /\ node' = Finished(q, node)
  /\ UNCHANGED <<arg, out, store>>

InitReauth ==
  /\ arg = [op |-> "baseQueryWithReauth"]
  /\ out = NoCall /\ store = NoStore
  /\ node = [locked |-> FALSE, epoch |-> 0,
             queries |-> [q \in 1..MaxQueries |->
                            [pc |-> "new", sends |-> 0, saw |-> 0]]]

NextReauth ==
  \/ CallQuery \/ SendOriginal \/ OriginalAnswered \/ SendRefresh
  \/ RefreshAnswered \/ RetryAnswered \/ Resend \/ ResendAnswered

SpecReauth == InitReauth /\ [][NextReauth]_vars

\* the queries whose POST /auth/refresh is in flight
Refreshing == {q \in DOMAIN node.queries : node.queries[q].pc = "refreshing"}

\* C23: over every interleaving of queries answered 401 at most one POST
\* /auth/refresh is in flight; a query that found a refresh in progress is
\* not sent again before that refresh has finished; and every query's own
\* request is sent again at most once.
C23_OneRefreshAndOneResend ==
  arg.op = "baseQueryWithReauth" =>
    /\ Cardinality(Refreshing) <= 1
    /\ \A q \in DOMAIN node.queries :
         /\ node.queries[q].sends <= 2
         /\ (node.queries[q].saw # 0 /\ node.queries[q].sends = 2) =>
              \A h \in DOMAIN node.queries :
                node.queries[h].pc \in {"acquired", "refreshing"}
                  => node.epoch # node.queries[q].saw

\* two queries were answered 401 while a third was refreshing, and both
\* were sent again after it
C23_Witness ==
  /\ arg.op = "baseQueryWithReauth"
  /\ Cardinality({q \in DOMAIN node.queries :
                    node.queries[q].saw = 1 /\ node.queries[q].sends = 2}) >= 2
  /\ node.epoch >= 1

----------------------------------------------------------------------------
(* GET /api/search: the route that hands every request to the pipeline     *)
(* builder, whatever its parameters                                        *)

\* locationsParam ? locationsParam.split(',').map(l => l.trim()) : []
SearchLocationsOf(locationsParam) ==
  IF Truthy(locationsParam)
    THEN Arr([i \in 1..Len(Split(locationsParam.s)) |->
                Str(Trim(Split(locationsParam.s)[i]))])
    ELSE Arr(<<>>)

\* the options GET /api/search reads from the query string
SearchOptionsOf(searchParams) ==
  Obj([k \in {"q", "language", "category", "locations", "sort", "page", "limit"} |->
         CASE k = "q" -> OrElse(Get(searchParams, "q"), Str(<<>>))
           [] k = "language" -> OrElse(Get(searchParams, "language"), Null)
           [] k = "category" -> OrElse(Get(searchParams, "category"), Null)
           [] k = "sort" -> OrElse(Get(searchParams, "sort"), Str(S_score))
           [] k = "page" ->
                ParseInt10(OrElse(Get(searchParams, "page"), Str(<<"1">>)).s)
           [] k = "limit" ->
                ParseInt10(OrElse(Get(searchParams, "limit"), Str(<<"1", "0">>)).s)
           [] k = "locations" -> SearchLocationsOf(Get(searchParams, "locations"))])

\* what the route leaves behind: the options, the pipeline handed to
\* collection.aggregate (none when the client promise rejects first) and the
\* response
Searched(options, pipeline) ==
  [op |-> "GET /api/search", options |-> options,
   pipeline |-> IF store.up THEN pipeline ELSE <<>>,
   response |-> IF ~store.up THEN InternalServerError
                ELSE SearchResponse(pipeline, options.o, store.docs)]

\* GET /api/search
SearchGET ==
  /\ out = NoCall
  /\ arg.t = "URLSearchParams"
  /\ out' = Once(LAMBDA options :
                   Once(LAMBDA pipeline : Searched(options, pipeline),
                        buildPdfSearchPipeline(options).v),
                 SearchOptionsOf(arg))
  /\ UNCHANGED <<arg, store, node>>

NextSearchRoutes == GET \/ SearchGET \/ CallBuildPdfSearchPipeline

SpecSearchRoutes == InitSearch /\ [][NextSearchRoutes]_vars

\* a pipeline was handed to the store's aggregate
PassedToStore ==
  \/ out.op = "GET" /\ out.pipeline # <<>>
  \/ out.op = "GET /api/search" /\ out.pipeline # <<>>

\* C24: every pipeline buildPdfSearchPipeline produced and a route passed to
\* the store, the one GET /api/search builds for an empty q with no language,
\* category or locations included, has at least one clause in the compound
\* operator of its $search stage: should or must is a non-empty list.
C24_CompoundHasAClause ==
  PassedToStore =>
    \/ Len(ClausesOf(out.pipeline[1].compound.should)) > 0
    \/ Len(ClausesOf(out.pipeline[1].compound.must)) > 0

\* the same, for the pipelines GET /api/pdfs passes to the store
C24_HoldsForPdfsRoute ==
  (out.op = "GET" /\ out.pipeline # <<>>) =>
    \/ Len(ClausesOf(out.pipeline[1].compound.should)) > 0
    \/ Len(ClausesOf(out.pipeline[1].compound.must)) > 0

====
